---- MODULE Spec2Model ----
(***************************************************************************)
(* A model of dlt-core: the DLT message decoder (parse.rs), the sync and   *)
(* async message readers (read.rs, stream.rs) and the statistics merge     *)
(* (statistics.rs).  Bytes are the integers 0..255, byte slices are        *)
(* sequences of bytes, an Option is the empty or the one-element sequence, *)
(* and a 32/64/128-bit number is the sequence of its base-256 digits, most *)
(* significant first.                                                      *)
(***************************************************************************)
EXTENDS Integers, Sequences, FiniteSets, TLC

VARIABLES
    tc,      \* parse harness: the call under test and how its input was generated
    rem,     \* parse harness: the input slice the next call is applied to
    res,     \* parse harness: the results returned so far, oldest first
    stream,  \* readers: the byte source and the messages it was built from
    sync,    \* readers: state of the DltMessageReader and its results
    async,   \* readers: state of the DltStreamReader, its pending call and its results
    stats    \* statistics: the StatisticInfo operands and the merged values

parseVars == <<tc, rem, res>>
readVars == <<stream, sync, async>>
vars == <<tc, rem, res, stream, sync, async, stats>>

-----------------------------------------------------------------------------
(* Bounds of the model *)

\* longest input of dlt_zero_terminated_string that is enumerated
MaxStrLen == 4
\* largest size argument of dlt_zero_terminated_string that is enumerated
MaxStrSize == 4

-----------------------------------------------------------------------------
(* Slices and options *)

None == <<>>
Some(v) == <<v>>
IsSome(o) == Len(o) > 0
Unwrap(o) == o[1]

Min(a, b) == IF a < b THEN a ELSE b

Take(s, n) == SubSeq(s, 1, Min(n, Len(s)))
Drop(s, n) == SubSeq(s, n + 1, Len(s))

Reverse(s) == [i \in 1..Len(s) |-> s[Len(s) + 1 - i]]

RECURSIVE Flatten(_)
Flatten(ss) == IF Len(ss) = 0 THEN <<>> ELSE Head(ss) \o Flatten(Tail(ss))

\* the sequences over S of length 0..n
SeqsUpTo(S, n) == UNION {[1..k -> S] : k \in 0..n}

\* index of the first element of s that satisfies P, or 0
Position(s, P(_)) ==
    LET S == {k \in 1..Len(s) : P(s[k])} IN
    IF S = {} THEN 0 ELSE CHOOSE k \in S : \A j \in S : k <= j

-----------------------------------------------------------------------------
(* nom results: Ok((rest, val)), Err(Incomplete(needed)), Err(Error(e)),   *)
(* Err(Failure(e)); needed = 0 stands for Needed::Unknown                  *)

Ok(rest, val) == [t |-> "Ok", rest |-> rest, val |-> val]
Incomplete(n) == [t |-> "Incomplete", needed |-> n]
ErrError(e) == [t |-> "Error", inner |-> e]
ErrFailure(e) == [t |-> "Failure", inner |-> e]
IsOk(r) == r.t = "Ok"

\* let v = e; k(v)
Bind(v, K(_)) == K(v)

\* the `?` operator: let (rest, val) = r?; k(..)
AndThen(r, K(_)) == IF IsOk(r) THEN K(r) ELSE r

\* ParseError::from_error_kind: every nom error kind becomes a ParsingHickup
from_error_kind == ErrError("ParsingHickup")

\* nom::bytes::streaming::take
take(n, i) ==
    IF Len(i) >= n THEN Ok(Drop(i, n), Take(i, n)) ELSE Incomplete(n - Len(i))

\* nom::bytes::streaming::tag
tag(t, i) ==
    LET m == Min(Len(t), Len(i)) IN
    IF Take(i, m) # Take(t, m) THEN from_error_kind
    ELSE IF Len(i) < Len(t) THEN Incomplete(Len(t) - Len(i))
    ELSE Ok(Drop(i, Len(t)), Take(i, Len(t)))

\* nom::number::streaming::be_u8
be_u8(i) == IF Len(i) < 1 THEN Incomplete(1) ELSE Ok(Tail(i), i[1])

\* nom::number::complete::be_u8
complete_be_u8(i) == IF Len(i) < 1 THEN from_error_kind ELSE Ok(Tail(i), i[1])

\* nom::number::streaming::be_u16
be_u16(i) ==
    IF Len(i) < 2 THEN Incomplete(2 - Len(i))
    ELSE Ok(Drop(i, 2), (i[1] * 256 + i[2]) % 65536)

\* nom::number::streaming::le_u16
le_u16(i) ==
    IF Len(i) < 2 THEN Incomplete(2 - Len(i))
    ELSE Ok(Drop(i, 2), (i[2] * 256 + i[1]) % 65536)

\* nom::number::streaming::be_u32 .. be_u128, be_i32 .., be_f32, be_f64: the
\* value is the digit sequence of the w bytes, most significant first
be_num(w, i) ==
    IF Len(i) < w THEN Incomplete(w - Len(i)) ELSE Ok(Drop(i, w), Take(i, w))

\* nom::number::streaming::le_u32 .. le_u128, le_i32 .., le_f32, le_f64
le_num(w, i) ==
    IF Len(i) < w THEN Incomplete(w - Len(i)) ELSE Ok(Drop(i, w), Reverse(Take(i, w)))

\* nom::bytes::streaming::take_while_m_n
take_while_m_n(m, n, cond(_), i) ==
    LET NotCond(c) == ~cond(c)
        p == Position(i, NotCond)
        idx == p - 1
    IN  IF p > 0
        THEN IF idx >= m
             THEN IF idx <= n
                  THEN Ok(Drop(i, idx), Take(i, idx))
                  ELSE Ok(Drop(i, n), Take(i, n))
             ELSE from_error_kind
        ELSE IF Len(i) >= n
             THEN Ok(Drop(i, n), Take(i, n))
             ELSE Incomplete(IF m > Len(i) THEN m - Len(i) ELSE 1)

-----------------------------------------------------------------------------
(* std::str::from_utf8: the length of the longest valid UTF-8 prefix *)

IsCont(b) == b >= 128 /\ b <= 191

\* width of the UTF-8 sequence that starts at s[i], or 0 when s[i..] does not
\* start with a complete well-formed sequence
Utf8Width(s, i) ==
    LET b == s[i]
        have(k) == i + k - 1 <= Len(s)
    IN  IF b < 128 THEN 1
        ELSE IF b >= 194 /\ b <= 223
             THEN IF have(2) /\ IsCont(s[i + 1]) THEN 2 ELSE 0
        ELSE IF b >= 224 /\ b <= 239
             THEN IF have(3)
                     /\ IsCont(s[i + 1])
                     /\ (b = 224 => s[i + 1] >= 160)
                     /\ (b = 237 => s[i + 1] <= 159)
                     /\ IsCont(s[i + 2])
                  THEN 3 ELSE 0
        ELSE IF b >= 240 /\ b <= 244
             THEN IF have(4)
                     /\ IsCont(s[i + 1])
                     /\ (b = 240 => s[i + 1] >= 144)
                     /\ (b = 244 => s[i + 1] <= 143)
                     /\ IsCont(s[i + 2])
                     /\ IsCont(s[i + 3])
                  THEN 4 ELSE 0
        ELSE 0

RECURSIVE ValidUpToFrom(_, _)
ValidUpToFrom(s, i) ==
    IF i > Len(s) THEN Len(s)
    ELSE LET w == Utf8Width(s, i) IN
         IF w = 0 THEN i - 1 ELSE ValidUpToFrom(s, i + w)

valid_up_to(s) == ValidUpToFrom(s, 1)

-----------------------------------------------------------------------------
(* parse.rs: zero terminated strings *)

is_not_null(chr) == chr # 0

\* a variant that stops right after the content instead of after `size` bytes
dlt_zero_terminated_string_unpadded(s, size) ==
    AndThen(take_while_m_n(0, size, is_not_null, s), LAMBDA r1 :
    Ok(r1.rest, Take(r1.val, valid_up_to(r1.val))))

\* the string is the byte sequence of its UTF-8 encoding
dlt_zero_terminated_string(s, size) ==
    AndThen(take_while_m_n(0, size, is_not_null, s), LAMBDA r1 :
    \* r1.rest: rest_with_null, r1.val: content_without_null
    AndThen(take(size - Len(r1.val), r1.rest), LAMBDA r2 :
    Ok(r2.rest, Take(r1.val, valid_up_to(r1.val)))))

parse_ecu_id(input) == dlt_zero_terminated_string(input, 4)

-----------------------------------------------------------------------------
(* dlt.rs: constants and header arithmetic *)

WITH_EXTENDED_HEADER_FLAG == 1
BIG_ENDIAN_FLAG == 2
WITH_ECU_ID_FLAG == 4
WITH_SESSION_ID_FLAG == 8
WITH_TIMESTAMP_FLAG == 16
VERBOSE_FLAG == 1
STORAGE_HEADER_LENGTH == 16
HEADER_MIN_LENGTH == 4
EXTENDED_HEADER_LENGTH == 10

\* (byte & flag) != 0, for a flag that is a power of two
HasFlag(byte, flag) == (byte \div flag) % 2 = 1

calculate_all_headers_length(header_type_byte) ==
    HEADER_MIN_LENGTH
    + (IF HasFlag(header_type_byte, WITH_ECU_ID_FLAG) THEN 4 ELSE 0)
    + (IF HasFlag(header_type_byte, WITH_SESSION_ID_FLAG) THEN 4 ELSE 0)
    + (IF HasFlag(header_type_byte, WITH_TIMESTAMP_FLAG) THEN 4 ELSE 0)
    + (IF HasFlag(header_type_byte, WITH_EXTENDED_HEADER_FLAG)
       THEN EXTENDED_HEADER_LENGTH ELSE 0)

\* StandardHeader::new
StandardHeader(version, endianness, message_counter, has_extended_header, payload_length, ecu_id, session_id, timestamp) ==
    [version |-> version, endianness |-> endianness,
     message_counter |-> message_counter,
     has_extended_header |-> has_extended_header,
     payload_length |-> payload_length,
     ecu_id |-> ecu_id, session_id |-> session_id, timestamp |-> timestamp]

\* StandardHeader::header_type_byte
header_type_byte(h) ==
    (h.version % 8) * 32
    + (IF h.has_extended_header THEN WITH_EXTENDED_HEADER_FLAG ELSE 0)
    + (IF h.endianness = "Big" THEN BIG_ENDIAN_FLAG ELSE 0)
    + (IF IsSome(h.ecu_id) THEN WITH_ECU_ID_FLAG ELSE 0)
    + (IF IsSome(h.session_id) THEN WITH_SESSION_ID_FLAG ELSE 0)
    + (IF IsSome(h.timestamp) THEN WITH_TIMESTAMP_FLAG ELSE 0)

\* StandardHeader::overall_length (u16)
overall_length(h) ==
    (calculate_all_headers_length(header_type_byte(h)) + h.payload_length) % 65536

\* MessageType::try_from(message_info): bits 1..3 are the message type, bits
\* 4..7 the message type info (log level, trace type, control type)
MessageTypeKind(mstp) ==
    CASE mstp = 0 -> "Log"
      [] mstp = 1 -> "ApplicationTrace"
      [] mstp = 2 -> "NetworkTrace"
      [] mstp = 3 -> "Control"
      [] OTHER -> "Unknown"

MessageType_try_from(message_info) ==
    LET mstp == (message_info \div 2) % 8
        mtin == (message_info \div 16) % 16
    IN  [k |-> MessageTypeKind(mstp), mstp |-> mstp, mtin |-> mtin]

\* ExtendedHeader::skip_with_level: a log message whose level is less severe
\* (numerically greater) than the minimum is skipped
skip_with_level(h, min_filter_level) ==
    h.message_type.k = "Log" /\ h.message_type.mtin > min_filter_level

-----------------------------------------------------------------------------
(* parse.rs: storage header, standard header, extended header *)

DLT_PATTERN == <<68, 76, 84, 1>>

\* memmem::Finder::find: offset of the first occurrence of DLT_PATTERN, or -1
FindPattern(input) ==
    LET S == {k \in 0..(Len(input) - 4) : SubSeq(input, k + 1, k + 4) = DLT_PATTERN} IN
    IF S = {} THEN 0 - 1 ELSE CHOOSE k \in S : \A j \in S : k <= j

\* Option<(to_drop, rest)>
forward_to_next_storage_header(input) ==
    LET to_drop == FindPattern(input) IN
    IF to_drop < 0 THEN None
    ELSE Some([consumed |-> to_drop, rest |-> Drop(input, to_drop)])

dlt_storage_header(input) ==
    IF Len(input) < STORAGE_HEADER_LENGTH THEN Incomplete(0)
    ELSE Bind(forward_to_next_storage_header(input), LAMBDA f :
         IF ~IsSome(f) THEN Ok(<<>>, None)
         ELSE
         AndThen(tag(<<68, 76, 84>>, Unwrap(f).rest), LAMBDA t1 :
         AndThen(tag(<<1>>, t1.rest), LAMBDA t2 :
         AndThen(le_num(4, t2.rest), LAMBDA seconds :
         AndThen(le_num(4, seconds.rest), LAMBDA microseconds :
         AndThen(dlt_zero_terminated_string(microseconds.rest, 4), LAMBDA ecu_id :
         Ok(ecu_id.rest,
            Some([header |-> [timestamp |-> [seconds |-> seconds.val,
                                             microseconds |-> microseconds.val],
                              ecu_id |-> ecu_id.val],
                  consumed |-> Unwrap(f).consumed]))))))))

maybe_parse_ecu_id(a, input) ==
    IF a
    THEN AndThen(parse_ecu_id(input), LAMBDA r : Ok(r.rest, Some(r.val)))
    ELSE Ok(input, None)

maybe_parse_u32(a, input) ==
    IF a
    THEN AndThen(be_num(4, input), LAMBDA r : Ok(r.rest, Some(r.val)))
    ELSE Ok(input, None)

\* a variant that refuses a message without payload
dlt_standard_header_strict(input) ==
    AndThen(be_u8(input), LAMBDA header_type_byte_ :
    Bind(header_type_byte_.val, LAMBDA htb :
    AndThen(be_u8(header_type_byte_.rest), LAMBDA message_counter :
    AndThen(be_u16(message_counter.rest), LAMBDA overall :
    AndThen(maybe_parse_ecu_id(HasFlag(htb, WITH_ECU_ID_FLAG), overall.rest),
            LAMBDA ecu_id :
    AndThen(maybe_parse_u32(HasFlag(htb, WITH_SESSION_ID_FLAG), ecu_id.rest),
            LAMBDA session_id :
    AndThen(maybe_parse_u32(HasFlag(htb, WITH_TIMESTAMP_FLAG), session_id.rest),
            LAMBDA timestamp :
    Bind(calculate_all_headers_length(htb), LAMBDA all_headers_length :
    IF all_headers_length >= overall.val
    THEN ErrError("ParsingHickup")
    ELSE Ok(timestamp.rest,
            StandardHeader((htb \div 32) % 8,
                           IF HasFlag(htb, BIG_ENDIAN_FLAG) THEN "Big" ELSE "Little",
                           message_counter.val,
                           HasFlag(htb, WITH_EXTENDED_HEADER_FLAG),
                           overall.val - all_headers_length,
                           ecu_id.val, session_id.val, timestamp.val))))))))))

\* a variant that leaves the comparison of the lengths to the caller
dlt_standard_header_unchecked(input) ==
    AndThen(be_u8(input), LAMBDA header_type_byte_ :
    Bind(header_type_byte_.val, LAMBDA htb :
    AndThen(be_u8(header_type_byte_.rest), LAMBDA message_counter :
    AndThen(be_u16(message_counter.rest), LAMBDA overall :
    AndThen(maybe_parse_ecu_id(HasFlag(htb, WITH_ECU_ID_FLAG), overall.rest),
            LAMBDA ecu_id :
    AndThen(maybe_parse_u32(HasFlag(htb, WITH_SESSION_ID_FLAG), ecu_id.rest),
            LAMBDA session_id :
    AndThen(maybe_parse_u32(HasFlag(htb, WITH_TIMESTAMP_FLAG), session_id.rest),
            LAMBDA timestamp :
    Bind(calculate_all_headers_length(htb), LAMBDA all_headers_length :
    Ok(timestamp.rest,
       StandardHeader((htb \div 32) % 8,
                      IF HasFlag(htb, BIG_ENDIAN_FLAG) THEN "Big" ELSE "Little",
                      message_counter.val,
                      HasFlag(htb, WITH_EXTENDED_HEADER_FLAG),
                      (overall.val - all_headers_length) % 65536,
                      ecu_id.val, session_id.val, timestamp.val))))))))))

dlt_standard_header(input) ==
    AndThen(be_u8(input), LAMBDA header_type_byte_ :
    Bind(header_type_byte_.val, LAMBDA htb :
    AndThen(be_u8(header_type_byte_.rest), LAMBDA message_counter :
    AndThen(be_u16(message_counter.rest), LAMBDA overall :
    AndThen(maybe_parse_ecu_id(HasFlag(htb, WITH_ECU_ID_FLAG), overall.rest),
            LAMBDA ecu_id :
    AndThen(maybe_parse_u32(HasFlag(htb, WITH_SESSION_ID_FLAG), ecu_id.rest),
            LAMBDA session_id :
    AndThen(maybe_parse_u32(HasFlag(htb, WITH_TIMESTAMP_FLAG), session_id.rest),
            LAMBDA timestamp :
    Bind(calculate_all_headers_length(htb), LAMBDA all_headers_length :
    IF all_headers_length > overall.val
    THEN ErrError("ParsingHickup")
    ELSE Ok(timestamp.rest,
            StandardHeader((htb \div 32) % 8,
                           IF HasFlag(htb, BIG_ENDIAN_FLAG) THEN "Big" ELSE "Little",
                           message_counter.val,
                           HasFlag(htb, WITH_EXTENDED_HEADER_FLAG),
                           overall.val - all_headers_length,
                           ecu_id.val, session_id.val, timestamp.val))))))))))

dlt_extended_header(input) ==
    AndThen(be_u8(input), LAMBDA message_info :
    AndThen(be_u8(message_info.rest), LAMBDA argument_count :
    AndThen(parse_ecu_id(argument_count.rest), LAMBDA app_id :
    AndThen(parse_ecu_id(app_id.rest), LAMBDA context_id :
    Ok(context_id.rest,
       [verbose |-> HasFlag(message_info.val, VERBOSE_FLAG),
        argument_count |-> argument_count.val,
        message_type |-> MessageType_try_from(message_info.val),
        application_id |-> app_id.val,
        context_id |-> context_id.val])))))

-----------------------------------------------------------------------------
(* dlt.rs: TypeInfo, ControlType *)

\* TypeLength / FloatWidth from bits 0..3 of the type info word, in bits; 0 = undefined
TypeLengthBits(tyle) ==
    CASE tyle = 1 -> 8 [] tyle = 2 -> 16 [] tyle = 3 -> 32 [] tyle = 4 -> 64
      [] tyle = 5 -> 128 [] OTHER -> 0

FloatWidthBits(tyle) ==
    CASE tyle = 3 -> 32 [] tyle = 4 -> 64 [] OTHER -> 0

TypeInfo(kind, width, coding, has_variable_info, has_trace_info) ==
    [kind |-> kind, width |-> width, coding |-> coding,
     has_variable_info |-> has_variable_info, has_trace_info |-> has_trace_info]

\* TypeInfo::try_from(u32), the word given by its four digits, most
\* significant first: Some(type_info), or None for an undefined word
TypeInfo_try_from(info) ==
    LET b0 == info[4]
        b1 == info[3]
        b2 == info[2]
        tyle == b0 % 16
        kindbits == (b0 \div 16) + 16 * (b1 % 8)
        vari == HasFlag(b1, 8)
        fixp == HasFlag(b1, 16)
        tra == HasFlag(b1, 32)
        scod == (b1 \div 128) + 2 * (b2 % 4)
        coding == IF scod = 1 THEN "UTF8" ELSE "ASCII"
        mk(kind, width) ==
            IF width = 0 /\ kind \notin {"Bool", "StringType", "Raw"} THEN None
            ELSE Some(TypeInfo(kind, width, coding, vari, tra))
    IN  IF scod > 1 THEN None
        ELSE CASE kindbits = 1 -> mk("Bool", 0)
               [] kindbits = 2 -> IF fixp THEN mk("SignedFixedPoint", FloatWidthBits(tyle))
                                  ELSE mk("Signed", TypeLengthBits(tyle))
               [] kindbits = 4 -> IF fixp THEN mk("UnsignedFixedPoint", FloatWidthBits(tyle))
                                  ELSE mk("Unsigned", TypeLengthBits(tyle))
               [] kindbits = 8 -> mk("Float", FloatWidthBits(tyle))
               [] kindbits = 32 -> mk("StringType", 0)
               [] kindbits = 64 -> mk("Raw", 0)
               [] OTHER -> None

float_width_to_type_length(width) == width

\* ControlType::from_value
ControlType_from_value(t) ==
    [k |-> IF t = 1 THEN "Request" ELSE IF t = 2 THEN "Response" ELSE "Unknown", n |-> t]

-----------------------------------------------------------------------------
(* parse.rs: arguments and payload; T is "Big" or "Little" *)

parse_u16(T, i) == IF T = "Big" THEN be_u16(i) ELSE le_u16(i)
parse_num(T, w, i) == IF T = "Big" THEN be_num(w, i) ELSE le_num(w, i)

Value(k, w, v) == [k |-> k, w |-> w, v |-> v]

Argument(type_info, name, unit, fixed_point, value) ==
    [type_info |-> type_info, name |-> name, unit |-> unit,
     fixed_point |-> fixed_point, value |-> value]

dlt_variable_name(T, input) ==
    AndThen(parse_u16(T, input), LAMBDA size :
    dlt_zero_terminated_string(size.rest, size.val))

dlt_variable_name_and_unit(T, type_info, input) ==
    IF type_info.has_variable_info
    THEN AndThen(parse_u16(T, input), LAMBDA name_size_unit_size :
         AndThen(parse_u16(T, name_size_unit_size.rest), LAMBDA unit_size :
         AndThen(dlt_zero_terminated_string(unit_size.rest, name_size_unit_size.val),
                 LAMBDA name :
         AndThen(dlt_zero_terminated_string(name.rest, unit_size.val), LAMBDA unit :
         Ok(unit.rest, <<Some(name.val), Some(unit.val)>>)))))
    ELSE Ok(input, <<None, None>>)

dlt_uint(T, width, i) ==
    AndThen(IF width = 8 THEN be_num(1, i) ELSE parse_num(T, width \div 8, i),
            LAMBDA r : Ok(r.rest, Value("U", width, r.val)))

dlt_sint(T, width, i) ==
    AndThen(IF width = 8 THEN be_num(1, i) ELSE parse_num(T, width \div 8, i),
            LAMBDA r : Ok(r.rest, Value("I", width, r.val)))

dlt_fint(T, width, i) ==
    AndThen(parse_num(T, width \div 8, i),
            LAMBDA r : Ok(r.rest, Value("F", width, r.val)))

dlt_type_info(T, input) ==
    AndThen(parse_num(T, 4, input), LAMBDA info :
    Bind(TypeInfo_try_from(info.val), LAMBDA type_info :
    IF IsSome(type_info) THEN Ok(info.rest, Unwrap(type_info))
    ELSE ErrError("ParsingHickup")))

dlt_fixed_point(T, input, width) ==
    AndThen(parse_num(T, 4, input), LAMBDA quantization :
    IF width = 32 \/ width = 64
    THEN AndThen(parse_num(T, width \div 8, quantization.rest), LAMBDA offset :
         Ok(offset.rest, [quantization |-> quantization.val,
                          offset |-> [w |-> width, v |-> offset.val]]))
    ELSE ErrError("ParsingHickup"))

\* the optional variable name of a raw, bool or string argument
OptVariableName(T, type_info, i) ==
    IF type_info.has_variable_info
    THEN AndThen(dlt_variable_name(T, i), LAMBDA r : Ok(r.rest, Some(r.val)))
    ELSE Ok(i, None)

\* the value of a signed, unsigned or float argument
dlt_number(T, kind, width, i) ==
    CASE kind \in {"Signed", "SignedFixedPoint"} -> dlt_sint(T, width, i)
      [] kind \in {"Unsigned", "UnsignedFixedPoint"} -> dlt_uint(T, width, i)
      [] OTHER -> dlt_fint(T, width, i)

\* the argument that follows its type info
dlt_argument_of(T, type_info, i) ==
    CASE type_info.kind \in {"Signed", "Unsigned", "Float"} ->
           AndThen(dlt_variable_name_and_unit(T, type_info, i), LAMBDA name_unit :
           AndThen(dlt_number(T, type_info.kind, type_info.width, name_unit.rest),
                   LAMBDA value :
           Ok(value.rest,
              Argument(type_info, name_unit.val[1], name_unit.val[2], None, value.val))))
      [] type_info.kind \in {"SignedFixedPoint", "UnsignedFixedPoint"} ->
           AndThen(dlt_variable_name_and_unit(T, type_info, i), LAMBDA name_unit :
           AndThen(dlt_fixed_point(T, name_unit.rest, type_info.width),
                   LAMBDA fixed_point :
           AndThen(dlt_number(T, type_info.kind,
                              float_width_to_type_length(type_info.width),
                              fixed_point.rest),
                   LAMBDA value :
           Ok(value.rest,
              Argument(type_info, name_unit.val[1], name_unit.val[2],
                       Some(fixed_point.val), value.val)))))
      [] type_info.kind = "Raw" ->
           AndThen(parse_u16(T, i), LAMBDA raw_byte_cnt :
           AndThen(OptVariableName(T, type_info, raw_byte_cnt.rest), LAMBDA name :
           AndThen(take(raw_byte_cnt.val, name.rest), LAMBDA value :
           Ok(value.rest,
              Argument(type_info, name.val, None, None, Value("Raw", 0, value.val))))))
      [] type_info.kind = "Bool" ->
           AndThen(OptVariableName(T, type_info, i), LAMBDA name :
           AndThen(be_u8(name.rest), LAMBDA bool_value :
           Ok(bool_value.rest,
              Argument(type_info, name.val, None, None,
                       Value("Bool", 8, <<bool_value.val>>)))))
      [] OTHER ->
           AndThen(parse_u16(T, i), LAMBDA size :
           AndThen(OptVariableName(T, type_info, size.rest), LAMBDA name :
           AndThen(dlt_zero_terminated_string(name.rest, size.val), LAMBDA value :
           Ok(value.rest,
              Argument(type_info, name.val, None, None,
                       Value("StringVal", 0, value.val))))))

dlt_argument(T, input) ==
    AndThen(dlt_type_info(T, input), LAMBDA type_info :
    dlt_argument_of(T, type_info.val, type_info.rest))

\* nom::multi::count(dlt_argument::<T>, n): the first error ends the loop
RECURSIVE count_dlt_argument(_, _, _, _)
count_dlt_argument(T, n, input, acc) ==
    IF n = 0 THEN Ok(input, acc)
    ELSE AndThen(dlt_argument(T, input), LAMBDA r :
         count_dlt_argument(T, n - 1, r.rest, Append(acc, r.val)))

add_context(ne) ==
    CASE ne.t = "Incomplete" -> ne
      [] ne.t = "Error" -> ErrError("ParsingHickup")
      [] OTHER -> ErrError("Unrecoverable")

\* the u16 subtraction a - b: the wrapped difference, and whether it overflowed
\* (a panic where overflow checks are compiled in)
SubU16(a, b) == [v |-> (a - b + 65536) % 65536, overflow |-> a < b]

\* a result that depends on the build: with overflow checks the call panics,
\* without them it returns `release`
Overflowed(release) == [t |-> "Overflow", release |-> release]
OrOverflowed(overflow, r) == IF overflow THEN Overflowed(r) ELSE r

dlt_payload(T, input, verbose, payload_length, arg_cnt, is_controll_msg) ==
    IF verbose
    THEN Bind(count_dlt_argument(T, arg_cnt, input, <<>>), LAMBDA r :
         IF IsOk(r) THEN Ok(r.rest, [k |-> "Verbose", args |-> r.val])
         ELSE add_context(r))
    ELSE IF is_controll_msg
    THEN IF payload_length < 1 THEN ErrFailure("ParsingHickup")
         ELSE AndThen(complete_be_u8(input), LAMBDA control_msg_id :
              AndThen(take(payload_length - 1, control_msg_id.rest), LAMBDA payload :
              Ok(payload.rest, [k |-> "ControlMsg",
                                ctype |-> ControlType_from_value(control_msg_id.val),
                                bytes |-> payload.val])))
    ELSE IF Len(input) < 4 THEN ErrFailure("ParsingHickup")
         ELSE OrOverflowed(SubU16(payload_length, 4).overflow,
              AndThen(parse_num(T, 4, input), LAMBDA message_id :
              AndThen(take(SubU16(payload_length, 4).v, message_id.rest), LAMBDA payload :
              Ok(payload.rest, [k |-> "NonVerbose", id |-> message_id.val,
                                bytes |-> payload.val]))))

-----------------------------------------------------------------------------
(* parse.rs: dlt_message *)

Item(msg) == [k |-> "Item", msg |-> msg]
FilteredOut(n) == [k |-> "FilteredOut", n |-> n]
Invalid == [k |-> "Invalid"]

Message(storage_header, header, extended_header, payload) ==
    [storage_header |-> storage_header, header |-> header,
     extended_header |-> extended_header, payload |-> payload]

\* a variant without the rules for messages that have no extended header
filtered_out_with_header_only(extended_header, filter_config_opt, ecu_id) ==
    IF IsSome(filter_config_opt) /\ IsSome(extended_header)
    THEN \/ /\ IsSome(Unwrap(filter_config_opt).min_log_level)
            /\ skip_with_level(Unwrap(extended_header),
                               Unwrap(Unwrap(filter_config_opt).min_log_level))
         \/ /\ IsSome(Unwrap(filter_config_opt).app_ids)
            /\ Unwrap(extended_header).application_id
                 \notin Unwrap(Unwrap(filter_config_opt).app_ids)
         \/ /\ IsSome(Unwrap(filter_config_opt).context_ids)
            /\ Unwrap(extended_header).context_id
                 \notin Unwrap(Unwrap(filter_config_opt).context_ids)
         \/ /\ IsSome(Unwrap(filter_config_opt).ecu_ids)
            /\ IsSome(ecu_id)
            /\ Unwrap(ecu_id) \notin Unwrap(Unwrap(filter_config_opt).ecu_ids)
    ELSE FALSE

\* filter_config_opt: None or Some(ProcessedDltFilterConfig); the id maps are
\* the sets of their keys
filtered_out(extended_header, filter_config_opt, ecu_id) ==
    IF IsSome(filter_config_opt)
    THEN LET filter_config == Unwrap(filter_config_opt) IN
         IF IsSome(extended_header)
         THEN LET h == Unwrap(extended_header) IN
              IF IsSome(filter_config.min_log_level)
                 /\ skip_with_level(h, Unwrap(filter_config.min_log_level))
              THEN TRUE
              ELSE IF IsSome(filter_config.app_ids)
                      /\ h.application_id \notin Unwrap(filter_config.app_ids)
              THEN TRUE
              ELSE IF IsSome(filter_config.context_ids)
                      /\ h.context_id \notin Unwrap(filter_config.context_ids)
              THEN TRUE
              ELSE IF IsSome(filter_config.ecu_ids)
                      /\ IsSome(ecu_id)
                      /\ Unwrap(ecu_id) \notin Unwrap(filter_config.ecu_ids)
              THEN TRUE
              ELSE FALSE
         ELSE IF IsSome(filter_config.app_ids)
                 /\ filter_config.app_id_count > Cardinality(Unwrap(filter_config.app_ids))
              THEN TRUE
              ELSE IF IsSome(filter_config.context_ids)
                      /\ filter_config.context_id_count
                           > Cardinality(Unwrap(filter_config.context_ids))
              THEN TRUE
              ELSE FALSE
    ELSE FALSE

\* a variant that does not compare the length with the bytes at hand
validated_payload_length_unchecked(header, remaining_bytes) ==
    IF overall_length(header) < calculate_all_headers_length(header_type_byte(header))
    THEN [t |-> "Err", e |-> "ParsingHickup"]
    ELSE [t |-> "Ok",
          val |-> overall_length(header)
                    - calculate_all_headers_length(header_type_byte(header))]

\* Result<u16, DltParseError>
validated_payload_length(header, remaining_bytes) ==
    LET message_length == overall_length(header)
        headers_length == calculate_all_headers_length(header_type_byte(header))
    IN  IF message_length < headers_length
        THEN [t |-> "Err", e |-> "ParsingHickup"]
        ELSE IF message_length > remaining_bytes
        THEN [t |-> "Err", e |-> "IncompleteParse",
              needed |-> message_length - remaining_bytes]
        ELSE [t |-> "Ok", val |-> message_length - headers_length]

\* the Item a decoded payload makes
ItemOf(storage_header_shifted, header, extended_header, pl) ==
    AndThen(pl, LAMBDA r :
    Ok(r.rest,
       Item(Message(IF IsSome(storage_header_shifted)
                    THEN Some(Unwrap(storage_header_shifted).header) ELSE None,
                    header, extended_header, r.val))))

\* a variant that decodes the payload of a message the filter excludes
dlt_message_payload_decoding(filter_config_opt, sh, hd, payload_length_res, eh) ==
    IF payload_length_res.t = "Err"
    THEN IF payload_length_res.e = "IncompleteParse"
         THEN Incomplete(payload_length_res.needed)
         ELSE Ok(hd.rest, Invalid)
    ELSE Bind(dlt_payload(hd.val.endianness, eh.rest,
                          IF IsSome(eh.val) THEN Unwrap(eh.val).verbose ELSE FALSE,
                          payload_length_res.val,
                          IF IsSome(eh.val) THEN Unwrap(eh.val).argument_count ELSE 0,
                          IF IsSome(eh.val)
                          THEN Unwrap(eh.val).message_type.k = "Control" ELSE FALSE),
              LAMBDA pl :
         IF pl.t = "Overflow"
         THEN Overflowed(AndThen(pl.release, LAMBDA r :
                         Ok(r.rest, FilteredOut(payload_length_res.val))))
         ELSE IF filtered_out(eh.val, filter_config_opt, hd.val.ecu_id)
         THEN AndThen(pl, LAMBDA r : Ok(r.rest, FilteredOut(payload_length_res.val)))
         ELSE ItemOf(sh.val, hd.val, eh.val, pl))

\* dlt_message_intern after the headers: sh, hd and eh are the parsed storage,
\* standard and extended header
dlt_message_payload(filter_config_opt, sh, hd, payload_length_res, eh) ==
    IF payload_length_res.t = "Err"
    THEN IF payload_length_res.e = "IncompleteParse"
         THEN Incomplete(payload_length_res.needed)
         ELSE Ok(hd.rest, Invalid)
    ELSE IF filtered_out(eh.val, filter_config_opt, hd.val.ecu_id)
    THEN AndThen(take(payload_length_res.val, eh.rest), LAMBDA t :
         Ok(t.rest, FilteredOut(payload_length_res.val)))
    ELSE Bind(dlt_payload(hd.val.endianness, eh.rest,
                          IF IsSome(eh.val) THEN Unwrap(eh.val).verbose ELSE FALSE,
                          payload_length_res.val,
                          IF IsSome(eh.val) THEN Unwrap(eh.val).argument_count ELSE 0,
                          IF IsSome(eh.val)
                          THEN Unwrap(eh.val).message_type.k = "Control" ELSE FALSE),
              LAMBDA pl :
         IF pl.t = "Overflow"
         THEN Overflowed(ItemOf(sh.val, hd.val, eh.val, pl.release))
         ELSE ItemOf(sh.val, hd.val, eh.val, pl))

dlt_message_intern(input, filter_config_opt, with_storage_header) ==
    AndThen(IF with_storage_header THEN dlt_storage_header(input) ELSE Ok(input, None),
            LAMBDA sh :
    \* sh.rest: after_storage_header, sh.val: storage_header_shifted
    AndThen(dlt_standard_header(sh.rest), LAMBDA hd :
    \* hd.rest: after_storage_and_normal_header, hd.val: header
    AndThen(IF hd.val.has_extended_header
            THEN AndThen(dlt_extended_header(hd.rest),
                         LAMBDA e : Ok(e.rest, Some(e.val)))
            ELSE Ok(hd.rest, None),
            LAMBDA eh :
    dlt_message_payload(filter_config_opt, sh, hd,
                        validated_payload_length(hd.val, Len(sh.rest)), eh))))

\* Result<T, DltParseError>
DltOk(rest, val) == [ok |-> TRUE, rest |-> rest, val |-> val]
DltErr(e, needed) == [ok |-> FALSE, err |-> e, needed |-> needed]

nom_to_dlt_parse_error(ne) ==
    CASE ne.t = "Incomplete" ->
           DltErr("IncompleteParse", IF ne.needed > 0 THEN Some(ne.needed) ELSE None)
      [] ne.t = "Error" -> DltErr("ParsingHickup", None)
      [] OTHER -> DltErr("Unrecoverable", None)

\* Result<(&[u8], T), DltParseError> from an IResult (map_err, or `?`)
FromNom(r) ==
    IF r.t = "Overflow"
    THEN Overflowed(IF IsOk(r.release) THEN DltOk(r.release.rest, r.release.val)
                    ELSE nom_to_dlt_parse_error(r.release))
    ELSE IF IsOk(r) THEN DltOk(r.rest, r.val)
    ELSE nom_to_dlt_parse_error(r)

dlt_message(input, filter_config_opt, with_storage_header) ==
    FromNom(dlt_message_intern(input, filter_config_opt, with_storage_header))

-----------------------------------------------------------------------------
(* parse.rs: skipping messages *)

skip_storage_header(input) ==
    AndThen(tag(<<68, 76, 84>>, input), LAMBDA t1 :
    AndThen(tag(<<1>>, t1.rest), LAMBDA t2 :
    AndThen(take(12, t2.rest), LAMBDA t3 :
    IF Len(input) - Len(t3.rest) = STORAGE_HEADER_LENGTH
    THEN Ok(t3.rest, STORAGE_HEADER_LENGTH)
    ELSE ErrError("ParsingHickup"))))

\* a variant that reports only the bytes in front of the storage header
skip_till_after_next_storage_header_front(input) ==
    Bind(forward_to_next_storage_header(input), LAMBDA f :
    IF IsSome(f)
    THEN Bind(skip_storage_header(Unwrap(f).rest), LAMBDA s :
         IF ~IsOk(s) THEN nom_to_dlt_parse_error(s)
         ELSE DltOk(s.rest, Unwrap(f).consumed))
    ELSE DltErr("ParsingHickup", None))

skip_till_after_next_storage_header(input) ==
    Bind(forward_to_next_storage_header(input), LAMBDA f :
    IF IsSome(f)
    THEN Bind(skip_storage_header(Unwrap(f).rest), LAMBDA s :
         IF ~IsOk(s) THEN nom_to_dlt_parse_error(s)
         ELSE DltOk(s.rest, Unwrap(f).consumed + s.val))
    ELSE DltErr("ParsingHickup", None))

\* a variant that leaves the storage header out of the count
dlt_consume_msg_without_storage(input) ==
    IF Len(input) = 0 THEN Ok(input, None)
    ELSE AndThen(skip_storage_header(input), LAMBDA s :
         AndThen(dlt_standard_header(s.rest), LAMBDA header :
         AndThen(take(overall_length(header.val), s.rest), LAMBDA t :
         Ok(t.rest, Some(overall_length(header.val))))))

dlt_consume_msg(input) ==
    IF Len(input) = 0 THEN Ok(input, None)
    ELSE AndThen(skip_storage_header(input), LAMBDA s :
         AndThen(dlt_standard_header(s.rest), LAMBDA header :
         AndThen(take(overall_length(header.val), s.rest), LAMBDA t :
         Ok(t.rest, Some(s.val + overall_length(header.val))))))

-----------------------------------------------------------------------------
(* dlt.rs: the encoders (as_bytes) *)

u16_bytes(T, n) ==
    IF T = "Big" THEN <<(n \div 256) % 256, n % 256>> ELSE <<n % 256, (n \div 256) % 256>>

num_bytes(T, digits) == IF T = "Big" THEN digits ELSE Reverse(digits)

\* a 4-byte identifier, zero-padded
id_bytes(id) == Take(id \o <<0, 0, 0, 0>>, 4)

\* a zero-terminated string and its size
zstring_bytes(str) == str \o <<0>>

StorageHeader_as_bytes(sh) ==
    DLT_PATTERN \o Reverse(sh.timestamp.seconds) \o Reverse(sh.timestamp.microseconds)
    \o id_bytes(sh.ecu_id)

StandardHeader_as_bytes(h) ==
    <<header_type_byte(h), h.message_counter>>
    \o u16_bytes("Big", overall_length(h))
    \o (IF IsSome(h.ecu_id) THEN id_bytes(Unwrap(h.ecu_id)) ELSE <<>>)
    \o (IF IsSome(h.session_id) THEN Unwrap(h.session_id) ELSE <<>>)
    \o (IF IsSome(h.timestamp) THEN Unwrap(h.timestamp) ELSE <<>>)

ExtendedHeader_as_bytes(e) ==
    <<(e.message_type.mtin % 16) * 16 + (e.message_type.mstp % 8) * 2
        + (IF e.verbose THEN VERBOSE_FLAG ELSE 0),
      e.argument_count>>
    \o id_bytes(e.application_id) \o id_bytes(e.context_id)

TypeLengthCode(width) ==
    CASE width = 8 -> 1 [] width = 16 -> 2 [] width = 32 -> 3 [] width = 64 -> 4
      [] width = 128 -> 5 [] OTHER -> 0

TypeInfo_as_bytes(T, ti) ==
    LET tyle == IF ti.kind \in {"Bool", "StringType", "Raw"} THEN 0
                ELSE TypeLengthCode(ti.width)
        kindbits == CASE ti.kind = "Bool" -> 1
                      [] ti.kind \in {"Signed", "SignedFixedPoint"} -> 2
                      [] ti.kind \in {"Unsigned", "UnsignedFixedPoint"} -> 4
                      [] ti.kind = "Float" -> 8
                      [] ti.kind = "StringType" -> 32
                      [] OTHER -> 64
        fixp == ti.kind \in {"SignedFixedPoint", "UnsignedFixedPoint"}
        scod == IF ti.coding = "UTF8" THEN 1 ELSE 0
        b0 == tyle + 16 * (kindbits % 16)
        b1 == (kindbits \div 16)
              + (IF ti.has_variable_info THEN 8 ELSE 0)
              + (IF fixp THEN 16 ELSE 0)
              + (IF ti.has_trace_info THEN 32 ELSE 0)
              + 128 * scod
    IN  num_bytes(T, <<0, 0, b1, b0>>)

\* the name of a bool, string or raw argument: its size and the bytes
VariableName_as_bytes(T, a) ==
    IF a.type_info.has_variable_info
    THEN u16_bytes(T, Len(Unwrap(a.name)) + 1) \o zstring_bytes(Unwrap(a.name))
    ELSE <<>>

Argument_as_bytes(T, a) ==
    LET ti == TypeInfo_as_bytes(T, a.type_info)
        kind == a.type_info.kind
        name_unit ==
            IF a.type_info.has_variable_info
            THEN u16_bytes(T, Len(Unwrap(a.name)) + 1)
                 \o u16_bytes(T, Len(Unwrap(a.unit)) + 1)
                 \o zstring_bytes(Unwrap(a.name)) \o zstring_bytes(Unwrap(a.unit))
            ELSE <<>>
        fp == IF IsSome(a.fixed_point)
              THEN num_bytes(T, Unwrap(a.fixed_point).quantization)
                   \o num_bytes(T, Unwrap(a.fixed_point).offset.v)
              ELSE <<>>
    IN  CASE kind = "Raw" ->
               ti \o u16_bytes(T, Len(a.value.v)) \o VariableName_as_bytes(T, a) \o a.value.v
          [] kind = "Bool" -> ti \o VariableName_as_bytes(T, a) \o a.value.v
          [] kind = "StringType" ->
               ti \o u16_bytes(T, Len(a.value.v) + 1) \o VariableName_as_bytes(T, a)
               \o zstring_bytes(a.value.v)
          [] OTHER -> ti \o name_unit \o fp \o num_bytes(T, a.value.v)

ControlType_value(c) ==
    CASE c.k = "Request" -> 1 [] c.k = "Response" -> 2 [] OTHER -> c.n

RawDescriptor == TypeInfo("Raw", 0, "ASCII", FALSE, FALSE)

PayloadContent_as_bytes(T, p) ==
    CASE p.k = "Verbose" ->
           Flatten([i \in 1..Len(p.args) |-> Argument_as_bytes(T, p.args[i])])
      [] p.k = "NonVerbose" -> num_bytes(T, p.id) \o p.bytes
      [] p.k = "ControlMsg" -> <<ControlType_value(p.ctype)>> \o p.bytes
      [] OTHER ->
           Flatten([i \in 1..Len(p.chunks) |->
                      TypeInfo_as_bytes(T, RawDescriptor)
                      \o u16_bytes(T, Len(p.chunks[i])) \o p.chunks[i]])

Message_as_bytes(m) ==
    (IF IsSome(m.storage_header) THEN StorageHeader_as_bytes(Unwrap(m.storage_header))
     ELSE <<>>)
    \o StandardHeader_as_bytes(m.header)
    \o (IF IsSome(m.extended_header) THEN ExtendedHeader_as_bytes(Unwrap(m.extended_header))
        ELSE <<>>)
    \o PayloadContent_as_bytes(m.header.endianness, m.payload)

-----------------------------------------------------------------------------
(* proptest_strategies.rs: the generated valid messages *)

Endiannesses == {"Big", "Little"}

\* header_strategy: the optional fields of the standard header
HeaderOptions ==
    {[ecu_id |-> None, session_id |-> None, timestamp |-> None],
     [ecu_id |-> Some(<<69, 67, 85, 49>>), session_id |-> None, timestamp |-> None],
     [ecu_id |-> Some(<<69, 67>>), session_id |-> Some(<<0, 0, 1, 127>>),
      timestamp |-> Some(<<0, 91, 247, 22>>)]}

SampleStorageHeader ==
    [timestamp |-> [seconds |-> <<77, 201, 44, 43>>, microseconds |-> <<0, 1, 232, 122>>],
     ecu_id |-> <<69, 67, 85>>]

\* argument_strategy: arguments of every kind, with and without variable info
ArgBool ==
    Argument(TypeInfo("Bool", 0, "ASCII", FALSE, FALSE), None, None, None,
             Value("Bool", 8, <<111>>))
ArgBoolVar ==
    Argument(TypeInfo("Bool", 0, "UTF8", TRUE, FALSE), Some(<<111, 110>>), None, None,
             Value("Bool", 8, <<1>>))
ArgI8 ==
    Argument(TypeInfo("Signed", 8, "ASCII", FALSE, TRUE), None, None, None,
             Value("I", 8, <<200>>))
ArgU16 ==
    Argument(TypeInfo("Unsigned", 16, "ASCII", FALSE, FALSE), None, None, None,
             Value("U", 16, <<1, 54>>))
ArgU32Var ==
    Argument(TypeInfo("Unsigned", 32, "UTF8", TRUE, FALSE),
             Some(<<97, 98>>), Some(<<99, 109>>), None,
             Value("U", 32, <<122, 252, 0, 37>>))
ArgF64 ==
    Argument(TypeInfo("Float", 64, "ASCII", FALSE, FALSE), None, None, None,
             Value("F", 64, <<64, 9, 33, 251, 84, 68, 45, 24>>))
ArgSFixed32 ==
    Argument(TypeInfo("SignedFixedPoint", 32, "ASCII", FALSE, FALSE), None, None,
             Some([quantization |-> <<63, 192, 0, 0>>,
                   offset |-> [w |-> 32, v |-> <<255, 255, 255, 56>>]]),
             Value("I", 32, <<255, 255, 255, 212>>))
ArgUFixed64Var ==
    Argument(TypeInfo("UnsignedFixedPoint", 64, "ASCII", TRUE, FALSE),
             Some(<<97>>), Some(<<65>>),
             Some([quantization |-> <<61, 204, 204, 205>>,
                   offset |-> [w |-> 64, v |-> <<0, 0, 0, 0, 0, 0, 0, 1>>]]),
             Value("U", 64, <<1, 2, 3, 4, 5, 6, 7, 8>>))
ArgStr ==
    Argument(TypeInfo("StringType", 0, "UTF8", FALSE, FALSE), None, None, None,
             Value("StringVal", 0, <<104, 195, 169>>))
ArgStrVar ==
    Argument(TypeInfo("StringType", 0, "ASCII", TRUE, FALSE), Some(<<110>>), None, None,
             Value("StringVal", 0, <<58>>))
ArgRaw ==
    Argument(TypeInfo("Raw", 0, "ASCII", FALSE, FALSE), None, None, None,
             Value("Raw", 0, <<1, 0, 255>>))
ArgRawVar ==
    Argument(TypeInfo("Raw", 0, "ASCII", TRUE, FALSE), Some(<<114, 119>>), None, None,
             Value("Raw", 0, <<>>))

MsgType(k, mstp, mtin) == [k |-> k, mstp |-> mstp, mtin |-> mtin]
LogWarn == MsgType("Log", 0, 3)
LogDebug == MsgType("Log", 0, 5)
ControlRequest == MsgType("Control", 3, 1)
NetworkTraceIpc == MsgType("NetworkTrace", 2, 1)

Verbose(args) == [k |-> "Verbose", args |-> args]
NonVerbose(id, bytes) == [k |-> "NonVerbose", id |-> id, bytes |-> bytes]
ControlMsg(ctype, bytes) == [k |-> "ControlMsg", ctype |-> ctype, bytes |-> bytes]
NetworkTrace(chunks) == [k |-> "NetworkTrace", chunks |-> chunks]

\* payload_strategy, non_verbose_payload_strategy: a payload and the message
\* type message_strat gives it
VerbosePayloads ==
    {Verbose(<<>>), Verbose(<<ArgBool>>), Verbose(<<ArgU16, ArgStr>>),
     Verbose(<<ArgU32Var>>), Verbose(<<ArgRaw, ArgSFixed32>>),
     Verbose(<<ArgF64, ArgStrVar>>), Verbose(<<ArgI8, ArgBoolVar, ArgRawVar>>),
     Verbose(<<ArgUFixed64Var>>)}

NonVerbosePayloads ==
    {NonVerbose(<<0, 0, 0, 9>>, <<>>), NonVerbose(<<0, 0, 1, 2>>, <<16, 0, 111>>)}

ControlPayloads ==
    {ControlMsg(ControlType_from_value(1), <<>>),
     ControlMsg(ControlType_from_value(17), <<0>>)}

NetworkTracePayloads ==
    {NetworkTrace(<<<<0, 0, 255, 1>>, <<249, 97>>>>)}

ArgumentCount(payload) ==
    CASE payload.k = "Verbose" -> Len(payload.args)
      [] payload.k = "NetworkTrace" -> Len(payload.chunks)
      [] OTHER -> 0

\* message_strat: payload_length, argument count, verbose flag and message type
\* follow from the payload
MkMessage(storage_header, endianness, opt, with_ext, message_type, payload) ==
    Message(storage_header,
            StandardHeader(1, endianness, 10, with_ext,
                           Len(PayloadContent_as_bytes(endianness, payload)),
                           opt.ecu_id, opt.session_id, opt.timestamp),
            IF with_ext
            THEN Some([verbose |-> payload.k \in {"Verbose", "NetworkTrace"},
                       argument_count |-> ArgumentCount(payload),
                       message_type |-> message_type,
                       application_id |-> <<76, 79, 71>>,
                       context_id |-> <<84, 69, 83, 50>>])
            ELSE None,
            payload)

\* the messages of message_strat (an extended header, a verbose, non-verbose
\* or control payload)
StrategyMessages(storage_header) ==
    {MkMessage(storage_header, T, opt, TRUE, LogWarn, p) :
        T \in Endiannesses, opt \in HeaderOptions, p \in VerbosePayloads}
    \cup {MkMessage(storage_header, T, opt, TRUE, LogDebug, p) :
            T \in Endiannesses, opt \in HeaderOptions, p \in NonVerbosePayloads}
    \cup {MkMessage(storage_header, T, opt, TRUE, ControlRequest, p) :
            T \in Endiannesses, opt \in HeaderOptions, p \in ControlPayloads}

\* valid messages message_strat does not generate: no extended header, and
\* network trace payloads
OtherMessages(storage_header) ==
    {MkMessage(storage_header, T, opt, FALSE, LogDebug, p) :
        T \in Endiannesses, opt \in HeaderOptions, p \in NonVerbosePayloads}
    \cup {MkMessage(storage_header, T, opt, TRUE, NetworkTraceIpc, p) :
            T \in Endiannesses, opt \in HeaderOptions, p \in NetworkTracePayloads}

ValidMessages(storage_header) ==
    StrategyMessages(storage_header) \cup OtherMessages(storage_header)

-----------------------------------------------------------------------------
(* The decoder under test: one call sequence per test case, as the tests of
   tests/dlt_parse_tests.rs drive it *)

MaxMsgs == 3
MaxGarbageLen == 2
MaxPayloadLen == 2

Suffixes == {<<>>, <<45, 45>>, DLT_PATTERN}

\* bytes before a storage header that do not hold the pattern
Garbages ==
    {g \in SeqsUpTo({0, 68, 76}, MaxGarbageLen) \cup {<<68, 76, 84>>, <<0, 1, 2>>} :
        FindPattern(g) = -1}

\* the builds: with overflow checks (a panic) and without (wrapping)
Builds == {"debug", "release"}
Panic == [ok |-> FALSE, err |-> "panic", needed |-> None]
Resolve(r, build) ==
    IF "t" \in DOMAIN r THEN (IF build = "debug" THEN Panic ELSE r.release) ELSE r

\* ProcessedDltFilterConfig values
FilterConfig(min_log_level, app_ids, context_ids, ecu_ids, app_id_count, context_id_count) ==
    [min_log_level |-> min_log_level, app_ids |-> app_ids, context_ids |-> context_ids,
     ecu_ids |-> ecu_ids, app_id_count |-> app_id_count,
     context_id_count |-> context_id_count]

Filters ==
    {FilterConfig(Some(2), None, None, None, 0, 0),
     FilterConfig(Some(6), None, None, None, 0, 0),
     FilterConfig(None, Some({<<65, 66>>}), None, None, 2, 0),
     FilterConfig(None, Some({<<76, 79, 71>>}), None, None, 1, 0),
     FilterConfig(None, None, Some({<<67>>}), None, 0, 2),
     FilterConfig(None, None, None, Some({<<69, 67, 85, 49>>}), 0, 0),
     FilterConfig(None, Some({}), None, None, 0, 0),
     FilterConfig(None, None, Some({}), None, 0, 0),
     FilterConfig(None, None, Some({<<84, 69, 83, 50>>}), None, 0, 1),
     FilterConfig(None, Some({<<76, 79, 71>>}), Some({<<84, 69, 83, 50>>}), None, 1, 1),
     FilterConfig(None, Some({<<76, 79, 71>>}), Some({<<84, 69, 83, 50>>}), None, 1, 3)}

TestCase(op, msgs, wsh, bytes, suffix, cut, filter, size) ==
    [op |-> op, msgs |-> msgs, wsh |-> wsh, bytes |-> bytes, suffix |-> suffix,
     cut |-> cut, filter |-> filter, size |-> size]

StoredMessages == ValidMessages(Some(SampleStorageHeader))

\* test_message_to_bytes_to_message: encode, append, decode
RoundtripCase ==
    \E m \in ValidMessages(None), sfx \in Suffixes :
        tc = TestCase("roundtrip", <<m>>, FALSE, <<>>, sfx, 0, None, 0)

\* test_dlt_message_parsing: every proper prefix of an encoded message
PrefixCase ==
    \E m \in ValidMessages(None) \cup StoredMessages :
        \E k \in 1..(Len(Message_as_bytes(m)) - 1) :
            tc = TestCase("prefix", <<m>>, IsSome(m.storage_header), <<>>, <<>>, k, None, 0)

\* test_count_messages: stored messages one after the other
CountSample ==
    {MkMessage(Some(SampleStorageHeader), T, opt, TRUE, LogWarn, p) :
        T \in {"Big"}, opt \in HeaderOptions, p \in {Verbose(<<>>), Verbose(<<ArgU16, ArgStr>>)}}
    \cup {MkMessage(Some(SampleStorageHeader), "Little", opt, FALSE, LogDebug, p) :
            opt \in {[ecu_id |-> None, session_id |-> None, timestamp |-> None]},
            p \in NonVerbosePayloads}

CountCase ==
    \E ms \in SeqsUpTo(CountSample, MaxMsgs) :
        tc = TestCase("count", ms, TRUE, <<>>, <<>>, 0, None, 0)

\* garbage, then a stored message
ResyncCase ==
    \E m \in StoredMessages, g \in Garbages :
        tc = TestCase("resync", <<m>>, TRUE, g, <<>>, 0, None, 0)

\* the headers of a message, then any payload bytes
FilterSample ==
    {MkMessage(None, T, opt, TRUE, LogWarn, Verbose(<<ArgBool>>)) :
        T \in Endiannesses, opt \in HeaderOptions}
    \cup {MkMessage(None, "Big", opt, TRUE, ControlRequest, p) :
            opt \in HeaderOptions, p \in ControlPayloads}
    \cup {MkMessage(None, "Big", opt, e, LogDebug, p) :
            opt \in HeaderOptions, e \in BOOLEAN, p \in NonVerbosePayloads}

FilterCase ==
    \E m \in FilterSample, b \in SeqsUpTo({0, 255}, MaxPayloadLen),
       sfx \in {<<>>, <<45, 45>>}, f \in Filters :
        tc = TestCase("filter", <<m>>, FALSE, b, sfx, 0, Some(f), 0)

\* test_dlt_zero_terminated_string_*
StringBytes == {0, 65, 195, 169, 226, 130, 172}

StringCase ==
    \E b \in SeqsUpTo(StringBytes, MaxStrLen), size \in 0..MaxStrSize :
        tc = TestCase("string", <<>>, FALSE, b, <<>>, 0, None, size)

\* standard headers: every combination of the flags, lengths below, at and
\* above the length of the headers the flags announce
HeaderLengths == {0, 3, 4, 7, 8, 12, 13, 14, 16, 18, 22, 25, 26, 27, 300}

HeaderCase ==
    \E ext \in BOOLEAN, big \in BOOLEAN, weid \in BOOLEAN, wsid \in BOOLEAN,
       wtms \in BOOLEAN, len \in HeaderLengths, sfx \in {<<>>, <<45, 45>>} :
        tc = TestCase("header",
                      <<[ext |-> ext, big |-> big, weid |-> weid, wsid |-> wsid,
                         wtms |-> wtms, len |-> len]>>,
                      FALSE, <<>>, sfx, 0, None, 0)

\* the bytes of a standard header with all the fields its flags announce
HeaderInput(h) ==
    <<32 + (IF h.ext THEN 1 ELSE 0) + (IF h.big THEN 2 ELSE 0)
         + (IF h.weid THEN 4 ELSE 0) + (IF h.wsid THEN 8 ELSE 0)
         + (IF h.wtms THEN 16 ELSE 0),
      7, h.len \div 256, h.len % 256>>
      \o (IF h.weid THEN <<69, 67, 85, 49>> ELSE <<>>)
      \o (IF h.wsid THEN <<0, 0, 2, 79>> ELSE <<>>)
      \o (IF h.wtms THEN <<1, 186, 113, 182>> ELSE <<>>)

\* the extended header of a verbose log message without arguments
SampleExtendedHeaderBytes == <<65, 0, 65, 80, 80, 49, 67, 84, 88, 49>>

\* messages whose overall length is below, at and above the length of the
\* headers: the standard header, the extended header it announces, a suffix
LengthCase ==
    \E ext \in BOOLEAN, big \in BOOLEAN, weid \in BOOLEAN, wsid \in BOOLEAN,
       wtms \in BOOLEAN, len \in HeaderLengths, sfx \in {<<>>, <<45, 45>>} :
        tc = TestCase("lengths",
                      <<[ext |-> ext, big |-> big, weid |-> weid, wsid |-> wsid,
                         wtms |-> wtms, len |-> len]>>,
                      FALSE, IF ext THEN SampleExtendedHeaderBytes ELSE <<>>,
                      sfx, 0, None, 0)

\* control messages, stored or not, whose headers announce no payload
EmptyControlCase ==
    \E w \in BOOLEAN, T \in Endiannesses, opt \in HeaderOptions, sfx \in Suffixes :
        tc = TestCase("control",
                      <<MkMessage(IF w THEN Some(SampleStorageHeader) ELSE None,
                                  T, opt, TRUE, ControlRequest,
                                  ControlMsg(ControlType_from_value(1), <<>>))>>,
                      w, <<>>, sfx, 0, None, 0)

\* non-verbose messages that are no control messages, stored or not, with
\* and without extended header, whose payload is shorter than a message id
MaxShortLen == 3

ShortPayloadCase ==
    \E w \in BOOLEAN, T \in Endiannesses, opt \in HeaderOptions, e \in BOOLEAN,
       b \in SeqsUpTo({0, 255}, MaxShortLen), sfx \in Suffixes :
        tc = TestCase("short",
                      <<MkMessage(IF w THEN Some(SampleStorageHeader) ELSE None,
                                  T, opt, e, LogDebug, NonVerbose(<<0, 0, 0, 9>>, <<>>))>>,
                      w, b, sfx, 0, None, 0)

\* inputs of 0..MaxPlainLen bytes without the pattern: the first bytes of the
\* repetition of a few bytes
MaxPlainLen == 18

PlainUnits == {<<0>>, <<68>>, <<68, 76, 84>>, <<68, 76, 84, 0>>, <<1, 68, 76>>,
               <<35, 10, 0, 14>>}

Repeated(unit, n) == [i \in 1..n |-> unit[((i - 1) % Len(unit)) + 1]]

PlainCase ==
    \E n \in 0..MaxPlainLen, unit \in PlainUnits :
        /\ FindPattern(Repeated(unit, n)) = -1
        /\ tc = TestCase("plain", <<>>, TRUE, Repeated(unit, n), <<>>, 0, None, 0)

\* verbose messages whose headers announce up to MaxSkew bytes less or more
\* than their arguments take, followed by any suffix
MaxSkew == 2

SkewedCase ==
    \E w \in BOOLEAN, T \in Endiannesses, opt \in HeaderOptions, p \in VerbosePayloads,
       d \in (0 - MaxSkew)..MaxSkew, sfx \in Suffixes :
        /\ Len(PayloadContent_as_bytes(T, p)) + d >= 0
        /\ tc = TestCase("skewed",
                         <<MkMessage(IF w THEN Some(SampleStorageHeader) ELSE None,
                                     T, opt, TRUE, LogWarn, p)>>,
                         w, PayloadContent_as_bytes(T, p), sfx, d, None,
                         Len(PayloadContent_as_bytes(T, p)) + d)

\* the headers of m announcing a payload of n bytes
HeaderBytes(m, n) ==
    LET h == [m.header EXCEPT !.payload_length = n] IN
    StandardHeader_as_bytes(h)
      \o (IF IsSome(m.extended_header)
          THEN ExtendedHeader_as_bytes(Unwrap(m.extended_header)) ELSE <<>>)

InputOf(c) ==
    CASE c.op = "roundtrip" -> Message_as_bytes(c.msgs[1]) \o c.suffix
      [] c.op = "prefix" -> Take(Message_as_bytes(c.msgs[1]), c.cut)
      [] c.op = "count" -> Flatten([i \in 1..Len(c.msgs) |-> Message_as_bytes(c.msgs[i])])
      [] c.op = "resync" -> c.bytes \o Message_as_bytes(c.msgs[1])
      [] c.op = "filter" -> HeaderBytes(c.msgs[1], Len(c.bytes)) \o c.bytes \o c.suffix
      [] c.op = "header" -> HeaderInput(c.msgs[1]) \o c.suffix
      [] c.op = "lengths" -> HeaderInput(c.msgs[1]) \o c.bytes \o c.suffix
      [] c.op = "control" ->
           (IF c.wsh THEN StorageHeader_as_bytes(Unwrap(c.msgs[1].storage_header))
            ELSE <<>>) \o HeaderBytes(c.msgs[1], 0) \o c.suffix
      [] c.op = "skewed" ->
           (IF c.wsh THEN StorageHeader_as_bytes(Unwrap(c.msgs[1].storage_header))
            ELSE <<>>) \o HeaderBytes(c.msgs[1], c.size) \o c.bytes \o c.suffix
      [] c.op = "short" ->
           (IF c.wsh THEN StorageHeader_as_bytes(Unwrap(c.msgs[1].storage_header))
            ELSE <<>>) \o HeaderBytes(c.msgs[1], Len(c.bytes)) \o c.bytes \o c.suffix
      [] OTHER -> c.bytes

Unused == <<>>

InitParse ==
    /\ \/ RoundtripCase
       \/ PrefixCase
       \/ CountCase
       \/ ResyncCase
       \/ FilterCase
       \/ StringCase
       \/ HeaderCase
       \/ EmptyControlCase
       \/ ShortPayloadCase
       \/ PlainCase
       \/ SkewedCase
       \/ LengthCase
    /\ rem = InputOf(tc)
    /\ res = <<>>
    /\ stream = Unused /\ sync = Unused /\ async = Unused /\ stats = Unused

\* dlt_message on the input: at once, or on what the resync left
CallDltMessage ==
    /\ \/ tc.op \in {"roundtrip", "prefix", "filter", "control", "short", "plain",
                     "skewed", "lengths"} /\ res = <<>>
       \/ tc.op = "resync" /\ Len(res) = 1 /\ res[1].ok
    /\ \E build \in Builds :
         LET wsh == IF tc.op = "resync" THEN FALSE ELSE tc.wsh
             r == Resolve(dlt_message(rem, tc.filter, wsh), build)
         IN  /\ res' = Append(res, r)
             /\ rem' = IF r.ok THEN r.rest ELSE rem
    /\ UNCHANGED <<tc, stream, sync, async, stats>>

\* the loop of test_count_messages: consume until nothing is left
CallConsume ==
    /\ tc.op = "count"
    /\ IF res = <<>> THEN TRUE
       ELSE IsOk(res[Len(res)]) /\ IsSome(res[Len(res)].val)
    /\ LET r == dlt_consume_msg(rem)
       IN  /\ res' = Append(res, r)
           /\ rem' = IF IsOk(r) THEN r.rest ELSE rem
    /\ UNCHANGED <<tc, stream, sync, async, stats>>

CallSkip ==
    /\ tc.op = "resync" /\ res = <<>>
    /\ LET r == skip_till_after_next_storage_header(rem)
       IN  /\ res' = Append(res, r)
           /\ rem' = IF r.ok THEN r.rest ELSE rem
    /\ UNCHANGED <<tc, stream, sync, async, stats>>

CallZeroTerminatedString ==
    /\ tc.op = "string" /\ res = <<>>
    /\ LET r == dlt_zero_terminated_string(rem, tc.size)
       IN  /\ res' = Append(res, r)
           /\ rem' = IF IsOk(r) THEN r.rest ELSE rem
    /\ UNCHANGED <<tc, stream, sync, async, stats>>

CallStandardHeader ==
    /\ tc.op = "header" /\ res = <<>>
    /\ LET r == dlt_standard_header(rem)
       IN  /\ res' = Append(res, r)
           /\ rem' = IF IsOk(r) THEN r.rest ELSE rem
    /\ UNCHANGED <<tc, stream, sync, async, stats>>

NextParse ==
    \/ CallDltMessage
    \/ CallConsume
    \/ CallSkip
    \/ CallZeroTerminatedString
    \/ CallStandardHeader

SpecParse == InitParse /\ [][NextParse]_vars

-----------------------------------------------------------------------------
(* Properties of the decoder *)

\* the test case has made n calls
Called(op, n) == tc.op = op /\ Len(res) = n

\* C1: for every valid message without storage header, decoding its encoded
\* bytes followed by a suffix returns the message itself as Item, and the
\* suffix as the remainder
C1_RoundTrip ==
    Called("roundtrip", 1) => res[1] = DltOk(tc.suffix, Item(tc.msgs[1]))

\* C2: decoding a proper prefix of a valid encoded message, with or without
\* storage header, returns the error IncompleteParse
C2_PrefixIncomplete ==
    Called("prefix", 1) => ~res[1].ok /\ res[1].err = "IncompleteParse"

\* a stored control message cut one byte before its end
C2_Witness ==
    /\ Called("prefix", 1)
    /\ tc.wsh
    /\ tc.msgs[1].payload.k = "ControlMsg"
    /\ tc.cut = Len(Message_as_bytes(tc.msgs[1])) - 1
    /\ res[1].err = "IncompleteParse"

\* the bytes of the messages after the first i
RestAfter(msgs, i) ==
    Flatten([j \in 1..(Len(msgs) - i) |-> Message_as_bytes(msgs[i + j])])

\* C6: on N stored messages one after the other, dlt_consume_msg returns N
\* times Some(16 + overall_length) of the message in turn, leaving the later
\* messages, and then None on the empty remainder
C6_ConsumeCounts ==
    tc.op = "count" =>
        /\ Len(res) <= Len(tc.msgs) + 1
        /\ \A i \in 1..Len(res) :
             IF i <= Len(tc.msgs)
             THEN res[i] = Ok(RestAfter(tc.msgs, i),
                              Some(16 + overall_length(tc.msgs[i].header)))
             ELSE res[i] = Ok(<<>>, None)

\* three messages, not all of one length, consumed to the end
C6_Witness ==
    /\ Called("count", 4)
    /\ Len(tc.msgs) = 3
    /\ res[1].val # res[2].val
    /\ res[3].rest = <<>>
    /\ res[4].val = None

\* C7 as stated: the resync reports exactly the length of the garbage
C7_ReportsGarbageLength ==
    (tc.op = "resync" /\ Len(res) >= 1) => res[1].ok /\ res[1].val = Len(tc.bytes)

\* C7: on garbage without the pattern followed by a valid stored message,
\* skip_till_after_next_storage_header reports the length of the garbage plus
\* the 16 bytes of the storage header, returns what follows the storage header,
\* and decoding that without storage header gives the message
C7_SkipsPastStorageHeader ==
    tc.op = "resync" =>
        /\ Len(res) >= 1 =>
             res[1] = DltOk(Drop(Message_as_bytes(tc.msgs[1]), 16), Len(tc.bytes) + 16)
        /\ Len(res) >= 2 =>
             /\ res[2].ok /\ res[2].rest = <<>> /\ res[2].val.k = "Item"
             /\ res[2].val.msg.storage_header = None
             /\ res[2].val.msg.header = tc.msgs[1].header
             /\ res[2].val.msg.extended_header = tc.msgs[1].extended_header
             /\ tc.msgs[1].payload.k # "NetworkTrace" =>
                  res[2].val.msg.payload = tc.msgs[1].payload

\* some garbage is skipped and the message after it decoded
C7_Witness ==
    /\ Called("resync", 2)
    /\ Len(tc.bytes) > 0
    /\ res[1].val = Len(tc.bytes) + 16
    /\ res[2].ok /\ res[2].val.k = "Item"

\* the filter of the test case excludes its message
Excluded(c) ==
    filtered_out(c.msgs[1].extended_header, c.filter, c.msgs[1].header.ecu_id)

\* the overall length the input announces
AnnouncedLength(input) == input[3] * 256 + input[4]

\* C8: for a complete message that the filter excludes, dlt_message returns
\* FilteredOut(overall_length - length of the headers) and the input after
\* overall_length bytes, whatever the payload bytes are
C8_FilteredOut ==
    (Called("filter", 1) /\ Excluded(tc)) =>
        res[1] = DltOk(Drop(InputOf(tc), AnnouncedLength(InputOf(tc))),
                       FilteredOut(AnnouncedLength(InputOf(tc))
                                     - Len(HeaderBytes(tc.msgs[1], 0))))

\* an excluded verbose message whose payload is no argument
C8_Witness ==
    /\ Called("filter", 1) /\ Excluded(tc)
    /\ tc.msgs[1].payload.k = "Verbose"
    /\ tc.bytes = <<255, 255>>
    /\ tc.suffix # <<>>
    /\ res[1].ok /\ res[1].val = FilteredOut(2) /\ res[1].rest = tc.suffix

\* the longest prefix of c that is valid UTF-8
IsUtf8(c) == valid_up_to(c) = Len(c)
LongestUtf8Prefix(c) ==
    Take(c, CHOOSE k \in 0..Len(c) :
              /\ IsUtf8(Take(c, k))
              /\ \A j \in (k + 1)..Len(c) : ~IsUtf8(Take(c, j)))

\* the bytes in front of the first 0 among the first size bytes of s
BeforeNull(s, size) ==
    IF \E i \in 1..size : s[i] = 0
    THEN Take(s, (CHOOSE i \in 1..size : s[i] = 0 /\ \A j \in 1..(i - 1) : s[j] # 0) - 1)
    ELSE Take(s, size)

\* C9: on at least size bytes dlt_zero_terminated_string returns the bytes in
\* front of the first 0 among the first size bytes, cut to their longest valid
\* UTF-8 prefix, and the input from offset size on; on fewer bytes, Incomplete
C9_ZeroTerminatedString ==
    Called("string", 1) =>
        IF Len(tc.bytes) >= tc.size
        THEN res[1] = Ok(Drop(tc.bytes, tc.size),
                         LongestUtf8Prefix(BeforeNull(tc.bytes, tc.size)))
        ELSE res[1].t = "Incomplete"

\* a string that ends in a broken character, then padding, then more input
C9_Witness ==
    /\ Called("string", 1)
    /\ Len(tc.bytes) > tc.size
    /\ IsOk(res[1])
    /\ Len(res[1].val) > 0
    /\ Len(res[1].val) < Len(BeforeNull(tc.bytes, tc.size))
    /\ Len(BeforeNull(tc.bytes, tc.size)) < tc.size
    /\ res[1].rest # <<>>

\* the length of all headers that the flags of a standard header announce
FlagsHeadersLength(h) ==
    4 + (IF h.weid THEN 4 ELSE 0) + (IF h.wsid THEN 4 ELSE 0)
      + (IF h.wtms THEN 4 ELSE 0) + (IF h.ext THEN 10 ELSE 0)

\* C16: on a complete standard header dlt_standard_header succeeds exactly
\* when the overall length is at least the length of all headers the flags
\* announce, with payload_length their difference, and is ParsingHickup
\* otherwise
C16_StandardHeaderLength ==
    Called("header", 1) =>
        IF tc.msgs[1].len >= FlagsHeadersLength(tc.msgs[1])
        THEN /\ IsOk(res[1])
             /\ res[1].val.payload_length
                  = tc.msgs[1].len - FlagsHeadersLength(tc.msgs[1])
             /\ res[1].rest = tc.suffix
        ELSE res[1] = ErrError("ParsingHickup")

\* a header with all flags set and no payload is accepted, one byte less is not
C16_Witness ==
    /\ Called("header", 1)
    /\ FlagsHeadersLength(tc.msgs[1]) = 26
    /\ tc.msgs[1].len = 26
    /\ IsOk(res[1]) /\ res[1].val.payload_length = 0
    /\ IsSome(res[1].val.timestamp)

\* dlt_message has dropped the message of the test case
Dropped == res[1].ok /\ res[1].val.k = "FilteredOut"

\* the filter of the test case, and the extended header of its message
TheFilter == Unwrap(tc.filter)
HasExtendedHeader == IsSome(tc.msgs[1].extended_header)

\* C17: with an extended header, a filter of app_ids alone (of context_ids
\* alone) drops the message exactly when the set is not empty and does not
\* hold the application id (context id) of the message
C17_IdRules ==
    (/\ Called("filter", 1) /\ HasExtendedHeader
     /\ TheFilter.min_log_level = None /\ TheFilter.ecu_ids = None) =>
        /\ (IsSome(TheFilter.app_ids) /\ TheFilter.context_ids = None) =>
             (Dropped <=>
                /\ Unwrap(TheFilter.app_ids) # {}
                /\ Unwrap(tc.msgs[1].extended_header).application_id
                     \notin Unwrap(TheFilter.app_ids))
        /\ (IsSome(TheFilter.context_ids) /\ TheFilter.app_ids = None) =>
             (Dropped <=>
                /\ Unwrap(TheFilter.context_ids) # {}
                /\ Unwrap(tc.msgs[1].extended_header).context_id
                     \notin Unwrap(TheFilter.context_ids))

\* C18: a filter whose ecu_ids is a set that is not empty drops every message
\* with an ECU id outside the set, with and without extended header
C18_EcuRule ==
    (/\ Called("filter", 1)
     /\ IsSome(TheFilter.ecu_ids) /\ Unwrap(TheFilter.ecu_ids) # {}
     /\ IsSome(tc.msgs[1].header.ecu_id)
     /\ Unwrap(tc.msgs[1].header.ecu_id) \notin Unwrap(TheFilter.ecu_ids)) =>
        Dropped

\* a configured set that does not hold every known id
Uncovered(ids, count) == IsSome(ids) /\ count > Cardinality(Unwrap(ids))

\* C19: a message without extended header is dropped when app_ids or
\* context_ids is configured with fewer ids than its count, and is not
\* dropped by these rules when each configured set holds count ids or more
C19_NoExtendedHeaderRules ==
    (Called("filter", 1) /\ ~HasExtendedHeader) =>
        IF \/ Uncovered(TheFilter.app_ids, TheFilter.app_id_count)
           \/ Uncovered(TheFilter.context_ids, TheFilter.context_id_count)
        THEN Dropped
        ELSE TheFilter.ecu_ids = None => ~Dropped

\* app_ids covers its ids, context_ids does not: the message is dropped
C19_Witness ==
    /\ Called("filter", 1) /\ ~HasExtendedHeader
    /\ ~Uncovered(TheFilter.app_ids, TheFilter.app_id_count)
    /\ IsSome(TheFilter.app_ids)
    /\ Uncovered(TheFilter.context_ids, TheFilter.context_id_count)
    /\ Dropped /\ res[1].rest = tc.suffix /\ tc.bytes # <<>>

\* C20: dlt_message on a control message that is not verbose and announces a
\* payload of 0 bytes returns the error ParsingHickup
C20_EmptyControlPayload ==
    Called("control", 1) => ~res[1].ok /\ res[1].err = "ParsingHickup"

\* C21: dlt_message on a message that is not verbose and no control message
\* and announces a payload of fewer than 4 bytes returns the error
\* ParsingHickup, whatever follows the message, in every build: payload_length
\* - 4 is not evaluated
C21_ShortPayload ==
    (Called("short", 1) /\ Len(tc.bytes) < 4) =>
        ~res[1].ok /\ res[1].err = "ParsingHickup"

\* the bytes of the input up to the end of the message its headers announce
MessageEnd ==
    (IF tc.wsh THEN STORAGE_HEADER_LENGTH ELSE 0)
        + calculate_all_headers_length(header_type_byte(tc.msgs[1].header)) + tc.size

\* C24: the arguments of a verbose message are decoded from the
\* payload_length bytes after the headers only: when dlt_message returns an
\* Item, the remainder begins overall_length bytes after the start of the
\* standard header
C24_ArgumentsWithinPayload ==
    (Called("skewed", 1) /\ res[1].ok /\ res[1].val.k = "Item") =>
        Len(InputOf(tc)) - Len(res[1].rest) = MessageEnd

\* the same for the messages whose headers announce the bytes of their
\* arguments
ArgumentsFillPayload ==
    (Called("skewed", 1) /\ tc.cut = 0) =>
        /\ res[1].ok /\ res[1].val.k = "Item"
        /\ Len(InputOf(tc)) - Len(res[1].rest) = MessageEnd

\* C25: a verbose message of message type network trace decodes to a
\* NetworkTrace payload with one byte chunk per argument, in message order,
\* and the decoded message encodes to the original bytes
C25_NetworkTrace ==
    (Called("roundtrip", 1) /\ tc.msgs[1].payload.k = "NetworkTrace") =>
        /\ res[1].ok /\ res[1].val.k = "Item"
        /\ res[1].val.msg.payload = NetworkTrace(tc.msgs[1].payload.chunks)
        /\ Message_as_bytes(res[1].val.msg) = Message_as_bytes(tc.msgs[1])

\* what the decoder returns for these messages: the chunks as raw arguments
\* of a Verbose payload, which encodes to the original bytes
NetworkTraceAsVerbose ==
    (Called("roundtrip", 1) /\ tc.msgs[1].payload.k = "NetworkTrace") =>
        /\ res[1].ok /\ res[1].val.k = "Item"
        /\ res[1].val.msg.payload.k = "Verbose"
        /\ \A i \in 1..Len(tc.msgs[1].payload.chunks) :
               /\ res[1].val.msg.payload.args[i].type_info.kind = "Raw"
               /\ res[1].val.msg.payload.args[i].value.v = tc.msgs[1].payload.chunks[i]
        /\ Message_as_bytes(res[1].val.msg) = Message_as_bytes(tc.msgs[1])

\* C23: dlt_message with a storage header expected, on an input of any length
\* that does not hold the pattern, returns IncompleteParse with no needed
\* count
C23_NoPattern ==
    Called("plain", 1) =>
        ~res[1].ok /\ res[1].err = "IncompleteParse" /\ res[1].needed = None

\* the same for the inputs shorter than a storage header
NoPatternShort ==
    (Called("plain", 1) /\ Len(tc.bytes) < STORAGE_HEADER_LENGTH) =>
        ~res[1].ok /\ res[1].err = "IncompleteParse" /\ res[1].needed = None

\* the bytes of the input from the start of the standard header
Remaining == Len(InputOf(tc)) - (IF tc.wsh THEN STORAGE_HEADER_LENGTH ELSE 0)

\* the input holds the standard header of the message with all its fields
StandardHeaderAvailable == Remaining >= Len(StandardHeader_as_bytes(tc.msgs[1].header))

\* C22: when the standard header is completely available and overall_length
\* exceeds the bytes of the input from the start of the standard header,
\* dlt_message returns IncompleteParse with needed = overall_length - remaining,
\* also for inputs that end inside the extended header
C22_IncompleteNeeded ==
    (Called("prefix", 1) /\ StandardHeaderAvailable
         /\ overall_length(tc.msgs[1].header) > Remaining) =>
        /\ ~res[1].ok /\ res[1].err = "IncompleteParse"
        /\ res[1].needed = Some(overall_length(tc.msgs[1].header) - Remaining)

\* the same for the inputs that hold all the headers of the message
IncompleteNeededAfterHeaders ==
    (Called("prefix", 1)
         /\ Remaining >= calculate_all_headers_length(header_type_byte(tc.msgs[1].header))
         /\ overall_length(tc.msgs[1].header) > Remaining) =>
        /\ ~res[1].ok /\ res[1].err = "IncompleteParse"
        /\ res[1].needed = Some(overall_length(tc.msgs[1].header) - Remaining)


\* the i-th result of the test case is a result of dlt_message
FromDltMessage(i) ==
    \/ i = 1 /\ tc.op \in {"roundtrip", "prefix", "filter", "control", "short",
                            "plain", "skewed", "lengths"}
    \/ i = 2 /\ tc.op = "resync"

\* C29: dlt_message never returns ParsedMessage::Invalid: an overall length
\* below the length of the headers is a ParsingHickup of dlt_standard_header
C29_NeverInvalid ==
    \A i \in 1..Len(res) :
        FromDltMessage(i) => ~(res[i].ok /\ res[i].val.k = "Invalid")

\* a message with all headers whose overall length is one byte less than
\* the headers take
C29_Witness ==
    /\ Called("lengths", 1)
    /\ FlagsHeadersLength(tc.msgs[1]) = 26
    /\ tc.msgs[1].len = 25
    /\ res[1] = DltErr("ParsingHickup", None)

\* dlt_message on an overall length below the length of the headers
ShortOverallLength ==
    Called("lengths", 1) /\ tc.msgs[1].len < FlagsHeadersLength(tc.msgs[1])
        => res[1] = DltErr("ParsingHickup", None)

-----------------------------------------------------------------------------
(* read.rs, stream.rs: the message readers *)

MaxReadMsgs == 2
MaxCalls == 4
MaxChunk == 3
MaxCancels == 1

\* parse_length: the overall length in the first four bytes of a standard header
parse_length(input) ==
    AndThen(take(2, input), LAMBDA r : be_u16(r.rest))

storage_len(with_storage_header) ==
    IF with_storage_header THEN STORAGE_HEADER_LENGTH ELSE 0

header_len(with_storage_header) == storage_len(with_storage_header) + HEADER_MIN_LENGTH

\* the results of next_message_slice
Slice(bytes) == [k |-> "slice", bytes |-> bytes]
Unrecoverable == [k |-> "err", bytes |-> <<>>]
IndexPanic == [k |-> "panic", bytes |-> <<>>]

\* Read::read_exact on a source at pos: n bytes, or everything up to the end and
\* an error
read_exact(bytes, pos, n) ==
    IF Len(bytes) - pos >= n
    THEN [ok |-> TRUE, pos |-> pos + n, data |-> SubSeq(bytes, pos + 1, pos + n)]
    ELSE [ok |-> FALSE, pos |-> Len(bytes), data |-> <<>>]

\* a variant that leaves the storage header out of the length
read_total_len_without_storage(header, with_storage_header) ==
    parse_length(SubSeq(header, storage_len(with_storage_header) + 1,
                        header_len(with_storage_header))).val

\* DltMessageReader::next_message_slice: total_len
read_total_len(header, with_storage_header) ==
    storage_len(with_storage_header)
      + parse_length(SubSeq(header, storage_len(with_storage_header) + 1,
                            header_len(with_storage_header))).val

\* DltMessageReader::next_message_slice: the source position and the result
next_message_slice(bytes, pos, with_storage_header) ==
    Bind(read_exact(bytes, pos, header_len(with_storage_header)), LAMBDA h :
    IF ~h.ok THEN [pos |-> h.pos, result |-> Slice(<<>>)]
    ELSE
    Bind(read_total_len(h.data, with_storage_header), LAMBDA total_len :
    IF total_len < header_len(with_storage_header)
    THEN [pos |-> h.pos, result |-> IndexPanic]
    ELSE
    Bind(read_exact(bytes, h.pos, total_len - header_len(with_storage_header)),
         LAMBDA b :
    IF ~b.ok THEN [pos |-> b.pos, result |-> Unrecoverable]
    ELSE [pos |-> b.pos, result |-> Slice(h.data \o b.data)])))

\* a variant that leaves the storage header out of the length
stream_total_len_without_storage(header, with_storage_header) ==
    parse_length(SubSeq(header, storage_len(with_storage_header) + 1,
                        header_len(with_storage_header))).val

\* DltStreamReader::next_message_slice: total_len
stream_total_len(header, with_storage_header) ==
    storage_len(with_storage_header)
      + parse_length(SubSeq(header, storage_len(with_storage_header) + 1,
                            header_len(with_storage_header))).val

\* the call returns result r
Returned(a, r) == [a EXCEPT !.pc = "idle", !.results = Append(@, r)]

\* DltStreamReader::next_message_slice at an await, the source at its end
stream_eof(a) ==
    IF a.pc = "header" THEN Returned(a, Slice(<<>>)) ELSE Returned(a, Unrecoverable)

\* the bytes the pending read_exact still wants
stream_need(a, with_storage_header) ==
    IF a.pc = "header" THEN header_len(with_storage_header) - Len(a.buffer)
    ELSE stream_total_len(a.buffer, with_storage_header) - Len(a.buffer)

\* DltStreamReader::next_message_slice after a read_exact is complete
stream_read_done(a, with_storage_header) ==
    IF a.pc = "header"
    THEN Bind(stream_total_len(a.buffer, with_storage_header), LAMBDA total_len :
         IF total_len < header_len(with_storage_header)
         THEN [Returned(a, IndexPanic) EXCEPT !.dead = TRUE]
         ELSE IF total_len = header_len(with_storage_header)
         THEN Returned(a, Slice(a.buffer))
         ELSE [a EXCEPT !.pc = "body"])
    ELSE Returned(a, Slice(a.buffer))

\* DltStreamReader::next_message_slice resumed: the source hands over n bytes
stream_poll(a, bytes, with_storage_header, n) ==
    Bind([a EXCEPT !.pos = @ + n,
                   !.buffer = @ \o SubSeq(bytes, a.pos + 1, a.pos + n)], LAMBDA b :
    IF stream_need(b, with_storage_header) = 0
    THEN stream_read_done(b, with_storage_header) ELSE b)

\* a variant that gives the bytes of the dropped call back to the source
cancelled_restoring(a) ==
    [a EXCEPT !.pc = "idle", !.cancels = @ + 1, !.pos = @ - Len(a.buffer)]

\* the future of next_message_slice is dropped at an await
cancelled(a) == [a EXCEPT !.pc = "idle", !.cancels = @ + 1]


\* test_read_messages: small messages, stored or not
ReadSample(with_storage_header) ==
    LET sh == IF with_storage_header THEN Some(SampleStorageHeader) ELSE None
        plain == [ecu_id |-> None, session_id |-> None, timestamp |-> None]
    IN  {MkMessage(sh, "Big", plain, FALSE, LogDebug, NonVerbose(<<0, 0, 0, 9>>, <<>>)),
         MkMessage(sh, "Little", plain, TRUE, LogWarn, Verbose(<<>>))}

\* what may follow the messages in a source: nothing, a cut header, a header
\* with a length below its own, a message cut in its body
Tails(with_storage_header) ==
    LET sh == IF with_storage_header
              THEN StorageHeader_as_bytes(SampleStorageHeader) ELSE <<>>
    IN  {<<>>, sh \o <<1, 2>>, sh \o <<33, 0, 0, 2>>, sh \o <<33, 0, 0, 9, 1>>}

\* how a source ends: read returns 0 bytes at the end of the input, or fails
SourceEnds == {"eof", "io"}

\* the io::Error of a read_exact the source cannot fill
source_error(s) == IF s.end = "io" THEN "Other" ELSE "UnexpectedEof"

StreamCase ==
    \E w \in BOOLEAN, e \in SourceEnds :
        \E ms \in SeqsUpTo(ReadSample(w), MaxReadMsgs), t \in Tails(w) :
            stream = [msgs |-> ms, wsh |-> w, tail |-> t, end |-> e,
                      bytes |-> Flatten([i \in 1..Len(ms) |-> Message_as_bytes(ms[i])])
                                  \o t]

InitRead ==
    /\ StreamCase
    /\ sync = [pos |-> 0, results |-> <<>>, dead |-> FALSE]
    /\ async = [pos |-> 0, pc |-> "idle", buffer |-> <<>>, results |-> <<>>,
                dead |-> FALSE, cancels |-> 0]
    /\ tc = Unused /\ rem = Unused /\ res = Unused /\ stats = Unused

\* a call of DltMessageReader::next_message_slice
SyncNext ==
    /\ ~sync.dead /\ Len(sync.results) < MaxCalls
    /\ async.pc = "idle"
    /\ LET r == next_message_slice(stream.bytes, sync.pos, stream.wsh)
       IN  sync' = [pos |-> r.pos, results |-> Append(sync.results, r.result),
                    dead |-> r.result = IndexPanic]
    /\ UNCHANGED <<tc, rem, res, stream, async, stats>>

\* a call of DltStreamReader::next_message_slice begins
AsyncStart ==
    /\ async.pc = "idle" /\ ~async.dead
    /\ Len(async.results) + async.cancels < MaxCalls
    /\ async' = [async EXCEPT !.pc = "header", !.buffer = <<>>]
    /\ UNCHANGED <<tc, rem, res, stream, sync, stats>>

\* the pending read_exact is polled: the source has a chunk of the bytes it
\* wants, or is at its end
AsyncPoll ==
    /\ async.pc \in {"header", "body"}
    /\ LET left == Len(stream.bytes) - async.pos
           want == Min(stream_need(async, stream.wsh), left)
       IN  IF left = 0
           THEN async' = stream_eof(async)
           ELSE \E n \in {Min(MaxChunk, want), want} :
                    async' = stream_poll(async, stream.bytes, stream.wsh, n)
    /\ UNCHANGED <<tc, rem, res, stream, sync, stats>>

\* the caller drops the future at an await
Cancel ==
    /\ async.pc \in {"header", "body"}
    /\ async.cancels < MaxCancels
    /\ async' = cancelled(async)
    /\ UNCHANGED <<tc, rem, res, stream, sync, stats>>

NextRead == SyncNext \/ AsyncStart \/ AsyncPoll \/ Cancel

SpecRead == InitRead /\ [][NextRead]_vars

\* storage header and message in one slice
SliceOf(m) == Slice(Message_as_bytes(m))

\* C3: on the concatenation of N valid messages the calls of
\* DltMessageReader::next_message_slice return the messages' bytes in source
\* order, each storage_len + overall_length long, and then the empty slice
C3_SlicesInOrder ==
    stream.tail = <<>> =>
        \A i \in 1..Len(sync.results) :
            IF i <= Len(stream.msgs)
            THEN /\ sync.results[i] = SliceOf(stream.msgs[i])
                 /\ Len(sync.results[i].bytes)
                      = (IF stream.wsh THEN 16 ELSE 0) + overall_length(stream.msgs[i].header)
            ELSE sync.results[i] = Slice(<<>>)

\* two stored messages of different lengths read, and two calls after them
C3_Witness ==
    /\ stream.tail = <<>> /\ stream.wsh /\ Len(stream.msgs) = 2
    /\ Len(sync.results) = 4
    /\ Len(sync.results[1].bytes) # Len(sync.results[2].bytes)
    /\ sync.results[2].bytes # <<>>
    /\ sync.results[4] = Slice(<<>>)

\* C4: as long as no call is cancelled, the results of
\* DltStreamReader::next_message_slice are those of
\* DltMessageReader::next_message_slice on the same bytes, call by call,
\* however the source cuts the bytes into chunks
C4_StreamAsRead ==
    async.cancels = 0 =>
        \A i \in 1..Min(Len(async.results), Len(sync.results)) :
            async.results[i] = sync.results[i]

\* both readers have made all their calls on a source that ends inside a body
C4_Witness ==
    /\ async.cancels = 0
    /\ Len(stream.msgs) >= 1 /\ stream.tail # <<>>
    /\ Len(async.results) = Len(stream.msgs) + 2
    /\ Len(sync.results) = Len(stream.msgs) + 2
    /\ async.results[Len(stream.msgs) + 1] = Unrecoverable
    /\ async.results[Len(stream.msgs) + 2] = Slice(<<>>)

\* C5: a call dropped while it reads the body ends without a result, the
\* source stays where the reads of the dropped call left it, and the next call
\* starts with a header read at that position
C5_CancelKeepsPosition ==
    [][/\ (async.pc = "body" /\ async'.pc = "idle"
              /\ Len(async'.results) = Len(async.results))
           => (async'.pos = async.pos /\ async'.pos >= header_len(stream.wsh))
       /\ (async.pc = "idle" /\ async'.pc = "header")
           => (async'.pos = async.pos /\ async'.buffer = <<>>)]_vars

\* after a call was dropped in its body read, the reader has returned a slice
\* that is none of the messages of the source
C5_Witness ==
    /\ stream.tail = <<>> /\ Len(stream.msgs) = 2
    /\ async.cancels = 1
    /\ \E i \in 1..Len(async.results) :
          /\ async.results[i].k = "slice"
          /\ async.results[i].bytes # <<>>
          /\ \A j \in 1..Len(stream.msgs) : async.results[i] # SliceOf(stream.msgs[j])

\* C12: a header read that fails with an I/O error makes next_message_slice,
\* of either reader, return an error and not the empty slice
C12_HeaderIoErrorReturned ==
    [][/\ (/\ Len(sync'.results) = Len(sync.results) + 1
           /\ Len(stream.bytes) - sync.pos < header_len(stream.wsh)
           /\ source_error(stream) = "Other")
          => sync'.results[Len(sync'.results)].k = "err"
       /\ (/\ async.pc = "header"
           /\ Len(async'.results) = Len(async.results) + 1
           /\ Len(stream.bytes) = async.pos
           /\ source_error(stream) = "Other")
          => async'.results[Len(async'.results)].k = "err"]_vars

\* after the messages the source holds a complete header whose overall_length
\* is below the 4 bytes of the header itself
ShortLengthTail ==
    /\ Len(stream.tail) = header_len(stream.wsh)
    /\ parse_length(SubSeq(stream.tail, storage_len(stream.wsh) + 1,
                           header_len(stream.wsh))).val < HEADER_MIN_LENGTH

\* C26: when the overall_length read from the source is below 4,
\* next_message_slice of either reader returns an error: it forms no body
\* range that ends before it starts
C26_ShortLengthIsError ==
    ShortLengthTail =>
        /\ Len(sync.results) > Len(stream.msgs)
               => sync.results[Len(stream.msgs) + 1].k = "err"
        /\ (async.cancels = 0 /\ Len(async.results) > Len(stream.msgs))
               => async.results[Len(stream.msgs) + 1].k = "err"

\* C28: next_message_slice of either reader returns the empty slice only when
\* the source has no bytes left at the start of the call, not when it ends
\* inside a header
C28_EmptySliceOnlyAtEnd ==
    [][/\ (/\ Len(sync'.results) = Len(sync.results) + 1
           /\ sync'.results[Len(sync'.results)] = Slice(<<>>))
          => sync.pos = Len(stream.bytes)
       /\ (/\ Len(async'.results) = Len(async.results) + 1
           /\ async'.results[Len(async'.results)] = Slice(<<>>))
          => (async.buffer = <<>> /\ async.pos = Len(stream.bytes))]_vars

-----------------------------------------------------------------------------
(* statistics.rs: LevelDistribution, StatisticInfo *)

MaxEntries == 2

all_zero ==
    [non_log |-> 0, log_fatal |-> 0, log_error |-> 0, log_warning |-> 0,
     log_info |-> 0, log_debug |-> 0, log_verbose |-> 0, log_invalid |-> 0]

\* LevelDistribution::new; level is None or Some(log level)
LevelDistribution_new(level) ==
    CASE level = None -> [all_zero EXCEPT !.non_log = 1]
      [] level = Some("Fatal") -> [all_zero EXCEPT !.log_fatal = 1]
      [] level = Some("Error") -> [all_zero EXCEPT !.log_error = 1]
      [] level = Some("Warn") -> [all_zero EXCEPT !.log_warning = 1]
      [] level = Some("Info") -> [all_zero EXCEPT !.log_info = 1]
      [] level = Some("Debug") -> [all_zero EXCEPT !.log_debug = 1]
      [] level = Some("Verbose") -> [all_zero EXCEPT !.log_verbose = 1]
      [] OTHER -> [all_zero EXCEPT !.log_invalid = 1]

\* a variant that overwrites the counters
LevelDistribution_merge_overwriting(self, outside) == outside

\* LevelDistribution::merge: self after the call
LevelDistribution_merge(self, outside) ==
    [non_log |-> self.non_log + outside.non_log,
     log_fatal |-> self.log_fatal + outside.log_fatal,
     log_error |-> self.log_error + outside.log_error,
     log_warning |-> self.log_warning + outside.log_warning,
     log_info |-> self.log_info + outside.log_info,
     log_debug |-> self.log_debug + outside.log_debug,
     log_verbose |-> self.log_verbose + outside.log_verbose,
     log_invalid |-> self.log_invalid + outside.log_invalid]

\* iter_mut().find: the index of the first entry of owner with the id, or 0
FindOwner(owner, income_id) ==
    IF \E i \in 1..Len(owner) : owner[i][1] = income_id
    THEN CHOOSE i \in 1..Len(owner) :
            owner[i][1] = income_id /\ \A j \in 1..(i - 1) : owner[j][1] # income_id
    ELSE 0

\* the closure of merge_levels for one entry of incomes
MergeLevel(owner, entry) ==
    IF FindOwner(owner, entry[1]) > 0
    THEN [owner EXCEPT ![FindOwner(owner, entry[1])] =
             <<entry[1], LevelDistribution_merge(@[2], entry[2])>>]
    ELSE Append(owner, entry)

\* StatisticInfo::merge_levels: owner after the call
RECURSIVE merge_levels(_, _)
merge_levels(owner, incomes) ==
    IF incomes = <<>> THEN owner
    ELSE merge_levels(MergeLevel(owner, Head(incomes)), Tail(incomes))

\* StatisticInfo::merge: self after the call
StatisticInfo_merge(self, stat) ==
    [app_ids |-> merge_levels(self.app_ids, stat.app_ids),
     context_ids |-> merge_levels(self.context_ids, stat.context_ids),
     ecu_ids |-> merge_levels(self.ecu_ids, stat.ecu_ids),
     contained_non_verbose |-> self.contained_non_verbose \/ stat.contained_non_verbose]

\* the ids and level distributions of the operands
StatIds == {"ID_0", "ID_1"}
StatEntries ==
    {<<"ID_0", LevelDistribution_new(None)>>,
     <<"ID_0", LevelDistribution_new(Some("Warn"))>>,
     <<"ID_1", LevelDistribution_new(Some("Warn"))>>}

\* a StatisticInfo: the three lists differ in order and length
StatisticInfo(entries, contained_non_verbose) ==
    [app_ids |-> entries, context_ids |-> Reverse(entries), ecu_ids |-> Take(entries, 1),
     contained_non_verbose |-> contained_non_verbose]

InitStat ==
    /\ \E ea \in SeqsUpTo(StatEntries, MaxEntries), eb \in SeqsUpTo(StatEntries, MaxEntries),
          ec \in SeqsUpTo(StatEntries, 1), fa \in BOOLEAN, fb \in BOOLEAN, fc \in BOOLEAN :
          stats = [a |-> StatisticInfo(ea, fa), b |-> StatisticInfo(eb, fb),
                   c |-> StatisticInfo(ec, fc), out |-> <<>>]
    /\ tc = Unused /\ rem = Unused /\ res = Unused
    /\ stream = Unused /\ sync = Unused /\ async = Unused

\* the merges of three operands: a.merge(b), b.merge(a), (a.merge(b)).merge(c),
\* b.merge(c), a.merge(b.merge(c))
CallMerge ==
    /\ Len(stats.out) < 5
    /\ LET n == Len(stats.out) + 1
           self == CASE n = 1 -> stats.a [] n = 2 -> stats.b [] n = 3 -> stats.out[1]
                     [] n = 4 -> stats.b [] OTHER -> stats.a
           stat == CASE n = 1 -> stats.b [] n = 2 -> stats.a [] n = 3 -> stats.c
                     [] n = 4 -> stats.c [] OTHER -> stats.out[4]
       IN  stats' = [stats EXCEPT !.out = Append(@, StatisticInfo_merge(self, stat))]
    /\ UNCHANGED <<tc, rem, res, stream, sync, async>>

NextStat == CallMerge

SpecStat == InitStat /\ [][NextStat]_vars

\* the counters of an id in a list: the sum over the entries with the id
RECURSIVE PerId(_, _)
PerId(entries, id) ==
    IF entries = <<>> THEN [f \in DOMAIN all_zero |-> 0]
    ELSE LET rest == PerId(Tail(entries), id) IN
         IF Head(entries)[1] = id
         THEN [f \in DOMAIN all_zero |-> Head(entries)[2][f] + rest[f]]
         ELSE rest

\* the per-id counters of the three lists
Counters(stat) ==
    [id \in StatIds |-> <<PerId(stat.app_ids, id), PerId(stat.context_ids, id),
                          PerId(stat.ecu_ids, id)>>]

\* the entry-wise sums of the per-id counters of x and y
SumOfCounters(x, y) ==
    [id \in StatIds |->
        [l \in 1..3 |->
            [f \in DOMAIN all_zero |-> Counters(x)[id][l][f] + Counters(y)[id][l][f]]]]

\* C10: the per-id counters of a.merge(b) are the entry-wise sums of those of
\* a and b, so they are the same for b.merge(a) and for either grouping of
\* three operands; contained_non_verbose is the OR of the operands' flags
C10_MergeSums ==
    /\ Len(stats.out) >= 1 =>
         /\ Counters(stats.out[1]) = SumOfCounters(stats.a, stats.b)
         /\ stats.out[1].contained_non_verbose
              = (stats.a.contained_non_verbose \/ stats.b.contained_non_verbose)
    /\ Len(stats.out) >= 2 =>
         /\ Counters(stats.out[2]) = Counters(stats.out[1])
         /\ stats.out[2].contained_non_verbose = stats.out[1].contained_non_verbose
    /\ Len(stats.out) >= 5 =>
         /\ Counters(stats.out[5]) = Counters(stats.out[3])
         /\ stats.out[5].contained_non_verbose = stats.out[3].contained_non_verbose

\* operands that share an id and each have an id of their own, all merged
C10_Witness ==
    /\ Len(stats.out) = 5
    /\ Len(stats.a.app_ids) = 2 /\ Len(stats.b.app_ids) = 2 /\ Len(stats.c.app_ids) = 1
    /\ stats.a.app_ids[1][1] = stats.b.app_ids[2][1]
    /\ stats.a.app_ids[2][1] # stats.b.app_ids[1][1]
    /\ Counters(stats.out[1])["ID_0"][1].log_warning = 2
    /\ stats.out[1].app_ids # stats.out[2].app_ids
    /\ ~stats.a.contained_non_verbose /\ stats.b.contained_non_verbose

-----------------------------------------------------------------------------
(* dlf.rs: the DLF filter definitions *)

MaxFilters == 2

\* reader::DlfEvent
DlfEvent(k, v) == [k |-> k, v |-> v]
FilterStart == DlfEvent("FilterStart", "")
FilterEnd == DlfEvent("FilterEnd", "")
DlfEof == DlfEvent("Eof", "")
\* the XML reader fails
DlfXmlError == DlfEvent("XmlError", "")

\* Result<T, DlfError>; pos is how far the reader has read
DlfOk(val, pos) == [ok |-> TRUE, val |-> val, pos |-> pos]
DlfErr(e) == [ok |-> FALSE, err |-> e]

\* DlfReader::read on the events of a document: the event after pos, Eof at
\* the end
dlf_read(events, pos) ==
    IF pos >= Len(events) THEN DlfEof ELSE events[pos + 1]

\* str::parse::<usize> on the texts of the documents below, -1 for an error
parse_usize(value) ==
    CASE value = "0" -> 0
      [] value = "1" -> 1
      [] value = "01" -> 1
      [] value = "2" -> 2
      [] value = "4" -> 4
      [] value = "7" -> 7
      [] value = "260" -> 260
      [] OTHER -> -1

parse_number(value) ==
    IF parse_usize(value) >= 0 THEN DlfOk(parse_usize(value), 0) ELSE DlfErr("Parse")

\* the locals of parse_filter_definition
NewFilterDefinition ==
    [ecu_id |-> None, app_id |-> None, context_id |-> None, log_level_max |-> None,
     enable_ecu_id |-> FALSE, enable_app_id |-> FALSE, enable_context_id |-> FALSE,
     enable_log_level_max |-> FALSE, enable_filter |-> FALSE]

\* a variant that takes the filter for enabled whatever enablefilter says
filter_end_always_enabled(d) ==
    IF d.enable_log_level_max /\ IsSome(d.log_level_max)
    THEN Some([ecu_id |-> IF d.enable_ecu_id THEN d.ecu_id ELSE None,
               app_id |-> IF d.enable_app_id THEN d.app_id ELSE None,
               context_id |-> IF d.enable_context_id THEN d.context_id ELSE None,
               log_level |-> Unwrap(d.log_level_max)])
    ELSE None

\* parse_filter_definition at DlfEvent::FilterEnd
filter_end(d) ==
    IF d.enable_filter /\ d.enable_log_level_max /\ IsSome(d.log_level_max)
    THEN Some([ecu_id |-> IF d.enable_ecu_id THEN d.ecu_id ELSE None,
               app_id |-> IF d.enable_app_id THEN d.app_id ELSE None,
               context_id |-> IF d.enable_context_id THEN d.context_id ELSE None,
               log_level |-> Unwrap(d.log_level_max)])
    ELSE None

\* parse_filter_definition: what a child element does to the locals
filter_child(d, e, n) ==
    CASE e.k = "EcuId" -> [d EXCEPT !.ecu_id = Some(e.v)]
      [] e.k = "AppId" -> [d EXCEPT !.app_id = Some(e.v)]
      [] e.k = "ContextId" -> [d EXCEPT !.context_id = Some(e.v)]
      [] e.k = "LogLevelMax" -> [d EXCEPT !.log_level_max = Some(n % 256)]
      [] e.k = "EnableEcuId" -> [d EXCEPT !.enable_ecu_id = (n = 1)]
      [] e.k = "EnableAppId" -> [d EXCEPT !.enable_app_id = (n = 1)]
      [] e.k = "EnableContextId" -> [d EXCEPT !.enable_context_id = (n = 1)]
      [] e.k = "EnableLogLevelMax" -> [d EXCEPT !.enable_log_level_max = (n = 1)]
      [] e.k = "EnableFilter" -> [d EXCEPT !.enable_filter = (n = 1)]
      [] OTHER -> d

\* the events whose text is a number
NumberEvents ==
    {"LogLevelMax", "EnableEcuId", "EnableAppId", "EnableContextId",
     "EnableLogLevelMax", "EnableFilter"}

RECURSIVE parse_filter_definition(_, _, _)
parse_filter_definition(events, pos, d) ==
    Bind(dlf_read(events, pos), LAMBDA e :
    CASE e.k = "XmlError" -> DlfErr("Xml")
      [] e.k = "FilterEnd" -> DlfOk(filter_end(d), pos + 1)
      [] e.k = "Eof" -> DlfOk(None, pos + 1)
      [] e.k \in NumberEvents /\ ~parse_number(e.v).ok -> parse_number(e.v)
      [] OTHER ->
           parse_filter_definition(events, pos + 1,
                                   filter_child(d, e, parse_usize(e.v))))

\* parse_dlf: the lists and counts after a filter definition
push_filter(acc, filter) ==
    [ecu_ids |-> IF IsSome(filter.ecu_id)
                 THEN Append(acc.ecu_ids, <<Unwrap(filter.ecu_id), filter.log_level>>)
                 ELSE acc.ecu_ids,
     app_ids |-> IF IsSome(filter.app_id)
                 THEN Append(acc.app_ids, <<Unwrap(filter.app_id), filter.log_level>>)
                 ELSE acc.app_ids,
     context_ids |-> IF IsSome(filter.context_id)
                     THEN Append(acc.context_ids,
                                 <<Unwrap(filter.context_id), filter.log_level>>)
                     ELSE acc.context_ids,
     app_id_count |-> acc.app_id_count + (IF IsSome(filter.app_id) THEN 1 ELSE 0),
     context_id_count |->
         acc.context_id_count + (IF IsSome(filter.context_id) THEN 1 ELSE 0)]

\* filtering::DltFilterConfig from the lists: an empty list is None
DltFilterConfig(acc) ==
    [app_ids |-> IF acc.app_ids = <<>> THEN None ELSE Some(acc.app_ids),
     ecu_ids |-> IF acc.ecu_ids = <<>> THEN None ELSE Some(acc.ecu_ids),
     context_ids |-> IF acc.context_ids = <<>> THEN None ELSE Some(acc.context_ids),
     app_id_count |-> acc.app_id_count,
     context_id_count |-> acc.context_id_count]

RECURSIVE parse_dlf_loop(_, _, _)
parse_dlf_loop(events, pos, acc) ==
    Bind(dlf_read(events, pos), LAMBDA e :
    CASE e.k = "XmlError" -> DlfErr("Xml")
      [] e.k = "Eof" -> DlfOk(DltFilterConfig(acc), pos + 1)
      [] e.k = "FilterStart" ->
           Bind(parse_filter_definition(events, pos + 1, NewFilterDefinition),
                LAMBDA f :
           IF ~f.ok THEN f
           ELSE parse_dlf_loop(events, f.pos,
                               IF IsSome(f.val) THEN push_filter(acc, Unwrap(f.val))
                               ELSE acc))
      [] OTHER -> parse_dlf_loop(events, pos + 1, acc))

parse_dlf(events) ==
    parse_dlf_loop(events, 0,
                   [ecu_ids |-> <<>>, app_ids |-> <<>>, context_ids |-> <<>>,
                    app_id_count |-> 0, context_id_count |-> 0])

\* test_parse_dlf_filter: the child elements of a <filter>, each kind present
\* or not, in the order of the test
Opt(present, e) == IF present THEN <<e>> ELSE <<>>

Texts01 == {"0", "1"}

FilterChildren(ids, lvl, ee, ea, ec, el, ef) ==
    Opt(ids[1], DlfEvent("EcuId", "E1"))
      \o Opt(ids[2], DlfEvent("AppId", "A1"))
      \o Opt(ids[3], DlfEvent("ContextId", "C1"))
      \o Opt(lvl # "", DlfEvent("LogLevelMax", lvl))
      \o <<DlfEvent("EnableEcuId", ee), DlfEvent("EnableAppId", ea),
           DlfEvent("EnableContextId", ec)>>
      \o Opt(el # "", DlfEvent("EnableLogLevelMax", el))
      \o Opt(ef # "", DlfEvent("EnableFilter", ef))

\* one more child in front: none, a child of a kind that may be there already,
\* a text that is no number, a failure of the XML reader
ExtraChildren ==
    {<<>>, <<DlfEvent("EnableFilter", "0")>>, <<DlfEvent("EnableFilter", "1")>>,
     <<DlfEvent("EcuId", "E2")>>, <<DlfEvent("LogLevelMax", "x")>>, <<DlfXmlError>>}

\* the same children in another order
Reordered(children, order) ==
    CASE order = "reversed" -> Reverse(children)
      [] order = "rotated" ->
           IF Len(children) < 2 THEN children
           ELSE Drop(children, Len(children) \div 2)
                  \o Take(children, Len(children) \div 2)
      [] OTHER -> children

Orders == {"same", "reversed", "rotated"}

\* the events of a document: <filter>, its children, </filter> for each filter
DlfDocument(filters) ==
    Flatten([i \in 1..Len(filters) |-> <<FilterStart>> \o filters[i] \o <<FilterEnd>>])

DlfCase(filters, order) ==
    [op |-> "dlf", filters |-> filters, order |-> order,
     docs |-> <<DlfDocument(filters),
                DlfDocument([i \in 1..Len(filters) |-> Reordered(filters[i], order)])>>]

SingleFilterCase ==
    \E ids \in {<<FALSE, FALSE, FALSE>>, <<TRUE, TRUE, TRUE>>, <<TRUE, FALSE, FALSE>>,
                <<FALSE, TRUE, TRUE>>},
       lvl \in {"", "7", "260"}, ee \in Texts01, ea \in Texts01, ec \in Texts01,
       el \in {"", "0", "1"}, ef \in {"", "0", "01"},
       x \in ExtraChildren, order \in Orders :
        tc = DlfCase(<<x \o FilterChildren(ids, lvl, ee, ea, ec, el, ef)>>, order)

\* filters for documents of several filters
FilterSamples ==
    {FilterChildren(<<TRUE, TRUE, TRUE>>, "7", "1", "1", "1", "1", "1"),
     FilterChildren(<<TRUE, TRUE, TRUE>>, "1", "0", "1", "0", "1", "1"),
     FilterChildren(<<TRUE, TRUE, TRUE>>, "7", "1", "1", "1", "1", "0"),
     FilterChildren(<<TRUE, FALSE, TRUE>>, "0", "1", "1", "1", "1", "1")}

SeveralFiltersCase ==
    \E fs \in SeqsUpTo(FilterSamples, MaxFilters), order \in Orders :
        tc = DlfCase(fs, order)

InitDlf ==
    /\ SingleFilterCase \/ SeveralFiltersCase
    /\ res = <<>>
    /\ rem = Unused /\ stream = Unused /\ sync = Unused /\ async = Unused
    /\ stats = Unused

\* DlfParser::parse on the next document of the test case
CallParseDlf ==
    /\ tc.op = "dlf" /\ Len(res) < Len(tc.docs)
    /\ res' = Append(res, parse_dlf(tc.docs[Len(res) + 1]))
    /\ UNCHANGED <<tc, rem, stream, sync, async, stats>>

NextDlf == CallParseDlf

SpecDlf == InitDlf /\ [][NextDlf]_vars

\* the text of the child of a kind, None without such a child
ChildText(f, kind) ==
    IF \E i \in 1..Len(f) : f[i].k = kind
    THEN Some(f[CHOOSE i \in 1..Len(f) : f[i].k = kind].v)
    ELSE None

\* the child of this kind is there and reads 1
IsOne(f, kind) ==
    IsSome(ChildText(f, kind)) /\ parse_usize(Unwrap(ChildText(f, kind))) = 1

\* the filter gives an entry
Emits(f) ==
    /\ IsOne(f, "EnableFilter") /\ IsOne(f, "EnableLogLevelMax")
    /\ IsSome(ChildText(f, "LogLevelMax"))

\* the id the entry of a filter carries
EntryId(f, kind, enable) ==
    IF Emits(f) /\ IsOne(f, enable) THEN ChildText(f, kind) ELSE None

\* the ids of a kind with their levels, for the filters in document order
RECURSIVE EntryList(_, _, _)
EntryList(filters, kind, enable) ==
    IF filters = <<>> THEN <<>>
    ELSE (IF IsSome(EntryId(filters[1], kind, enable))
          THEN <<<<Unwrap(EntryId(filters[1], kind, enable)),
                   parse_usize(Unwrap(ChildText(filters[1], "LogLevelMax"))) % 256>>>>
          ELSE <<>>)
         \o EntryList(Tail(filters), kind, enable)

ListOrNone(l) == IF l = <<>> THEN None ELSE Some(l)

ExpectedConfig(filters) ==
    [app_ids |-> ListOrNone(EntryList(filters, "AppId", "EnableAppId")),
     ecu_ids |-> ListOrNone(EntryList(filters, "EcuId", "EnableEcuId")),
     context_ids |-> ListOrNone(EntryList(filters, "ContextId", "EnableContextId")),
     app_id_count |-> Len(EntryList(filters, "AppId", "EnableAppId")),
     context_id_count |-> Len(EntryList(filters, "ContextId", "EnableContextId"))]

\* no kind of child twice in a filter, every number a number, no reader failure
PlainFilters(filters) ==
    \A n \in 1..Len(filters) :
        /\ \A i, j \in 1..Len(filters[n]) :
              filters[n][i].k = filters[n][j].k => i = j
        /\ \A i \in 1..Len(filters[n]) :
              /\ filters[n][i].k # "XmlError"
              /\ filters[n][i].k \in NumberEvents => parse_usize(filters[n][i].v) >= 0

\* C13 as stated: the result for a document does not depend on the order of
\* the children of its filters
C13_AnyOrder ==
    (tc.op = "dlf" /\ Len(res) = 2) => res[1] = res[2]

\* C13: when no filter has two children of one kind, each filter gives an
\* entry exactly when enablefilter and enableLogLevelMax read 1 and logLevelMax
\* is there, the entry carries each id that is there and enabled, and the
\* children in another order give the same result
C13_FilterEntries ==
    (tc.op = "dlf" /\ PlainFilters(tc.filters)) =>
        \A i \in 1..Len(res) :
            res[i].ok /\ res[i].val = ExpectedConfig(tc.filters)

\* a filter with all ids of which the application id is not enabled, read
\* with its children in reverse order
C13_Witness ==
    /\ tc.op = "dlf" /\ PlainFilters(tc.filters) /\ Len(res) = 2
    /\ tc.order = "reversed" /\ Len(tc.filters) = 1
    /\ tc.docs[1] # tc.docs[2]
    /\ res[2].val.ecu_ids = Some(<<<<"E1", 4>>>>)
    /\ res[2].val.app_ids = None
    /\ res[2].val.context_id_count = 1

-----------------------------------------------------------------------------
(* fibex/mod.rs: the XML reader *)

\* quick_xml events: Start and Empty with the attributes of the tag, End, Text
\* (bad: the text cannot be unescaped), Fail for an error of the XML reader
XStart(name, attrs) == [k |-> "Start", name |-> name, attrs |-> attrs]
XEmpty(name, attrs) == [k |-> "Empty", name |-> name, attrs |-> attrs]
XEnd(name) == [k |-> "End", name |-> name]
XText(text) == [k |-> "Text", text |-> text, bad |-> FALSE]
XBadText == [k |-> "Text", text |-> "", bad |-> TRUE]
XFail == [k |-> "Fail"]
XEof == [k |-> "Eof"]

\* an attribute: its name, whether a namespace prefix precedes the name, its
\* value; bad: the attribute cannot be parsed
Attr(name, val) == [name |-> name, ns |-> FALSE, val |-> val, bad |-> FALSE]
NsAttr(name, val) == [name |-> name, ns |-> TRUE, val |-> val, bad |-> FALSE]
BadAttr == [name |-> "", ns |-> FALSE, val |-> "", bad |-> TRUE]

\* Result<T, Error> of the reader functions, with the reader after the call
FxOk(val, r) == [ok |-> TRUE, val |-> val, r |-> r]
FxErr(e, r) == [ok |-> FALSE, err |-> e, r |-> r]

\* Reader::from_file
NewReader(events) ==
    [events |-> events, pos |-> 0,
     short_name |-> None, description |-> None, byte_length |-> None, id |-> None,
     sequence_number |-> None, ref |-> None, application_id |-> None,
     context_id |-> None, message_type |-> None, message_info |-> None,
     base_data_type |-> None]

\* XmlReaderWithContext::read_event
xml_read_event(r) ==
    IF r.pos >= Len(r.events) THEN FxOk(XEof, r)
    ELSE IF r.events[r.pos + 1].k = "Fail"
    THEN FxErr("Xml", [r EXCEPT !.pos = @ + 1])
    ELSE FxOk(r.events[r.pos + 1], [r EXCEPT !.pos = @ + 1])

\* XmlReaderWithContext::read_text
read_text(r) ==
    Bind(xml_read_event(r), LAMBDA x :
    IF ~x.ok THEN x
    ELSE IF x.val.k = "Text"
    THEN (IF x.val.bad THEN FxErr("Xml", x.r) ELSE FxOk(x.val.text, x.r))
    ELSE FxErr("Parse", x.r))

\* XmlReaderWithContext::read_usize
read_usize(r) ==
    Bind(read_text(r), LAMBDA t :
    IF ~t.ok THEN t
    ELSE IF parse_usize(t.val) >= 0 THEN FxOk(parse_usize(t.val), t.r)
    ELSE FxErr("Parse", t.r))

\* attr_opt: the attributes in order up to the first that has the name, with
\* or without namespace; an attribute that cannot be parsed is an error
AttrStops(attrs, name, i) == attrs[i].bad \/ attrs[i].name = name

attr_opt(attrs, name, r) ==
    IF \E i \in 1..Len(attrs) : AttrStops(attrs, name, i)
    THEN Bind(CHOOSE i \in 1..Len(attrs) :
                  /\ AttrStops(attrs, name, i)
                  /\ \A j \in 1..(i - 1) : ~AttrStops(attrs, name, j),
              LAMBDA i : IF attrs[i].bad THEN FxErr("Attribute", r)
                         ELSE FxOk(Some(attrs[i].val), r))
    ELSE FxOk(None, r)

\* XmlReaderWithContext::attr, id_attr, id_ref_attr: the attribute is required
attr(attrs, name, r) ==
    Bind(attr_opt(attrs, name, r), LAMBDA a :
    IF ~a.ok THEN a
    ELSE IF a.val = None THEN FxErr("FibexStructure", r)
    ELSE FxOk(Unwrap(a.val), r))

\* Result::ok
ok_or_none(x) == IF x.ok THEN Some(x.val) ELSE None

\* mem::take and the resets of the reader's fields
Clear(r, fields) == [f \in DOMAIN r |-> IF f \in fields THEN None ELSE r[f]]

\* the tags whose text read_event stores, and the field that takes it
TextField(name) ==
    CASE name = "SHORT-NAME" -> "short_name"
      [] name = "APPLICATION_ID" -> "application_id"
      [] name = "CONTEXT_ID" -> "context_id"
      [] name = "MESSAGE_INFO" -> "message_info"
      [] name = "MESSAGE_TYPE" -> "message_type"
      [] OTHER -> ""

\* the tags whose number read_event stores
NumberField(name) ==
    CASE name = "BYTE-LENGTH" -> "byte_length"
      [] name = "SEQUENCE-NUMBER" -> "sequence_number"
      [] OTHER -> ""

\* the tags whose ID attribute read_event stores in id, and what it resets
IdResets(name) ==
    CASE name \in {"SIGNAL-INSTANCE", "PDU-INSTANCE"} -> {"ref", "sequence_number"}
      [] name = "CODING" -> {"base_data_type"}
      [] name = "SIGNAL" -> {"ref"}
      [] OTHER -> {}

IdTags == {"SIGNAL-INSTANCE", "PDU-INSTANCE", "CODING", "SIGNAL"}

\* the Events of the reader
PduStart(id) == [k |-> "PduStart", id |-> id]
FrameStart(id) == [k |-> "FrameStart", id |-> id]
PduEnd(r) ==
    [k |-> "PduEnd", short_name |-> r.short_name, description |-> r.description,
     byte_length |-> Unwrap(r.byte_length)]
FrameEnd(r) ==
    [k |-> "FrameEnd", short_name |-> Unwrap(r.short_name),
     byte_length |-> Unwrap(r.byte_length)]
SignalInstance(r) ==
    [k |-> "SignalInstance", id |-> Unwrap(r.id),
     sequence_number |-> Unwrap(r.sequence_number), signal_ref |-> Unwrap(r.ref)]
PduInstance(r) ==
    [k |-> "PduInstance", id |-> Unwrap(r.id),
     sequence_number |-> Unwrap(r.sequence_number), pdu_ref |-> Unwrap(r.ref)]
ManufacturerExtension(r) ==
    [k |-> "ManufacturerExtension", application_id |-> r.application_id,
     context_id |-> r.context_id, message_type |-> r.message_type,
     message_info |-> r.message_info]
SignalEvent(r) == [k |-> "Signal", id |-> Unwrap(r.id), coding_ref |-> Unwrap(r.ref)]
CodingEvent(r) ==
    [k |-> "Coding", id |-> Unwrap(r.id), base_data_type |-> Unwrap(r.base_data_type)]
EofEvent == [k |-> "Eof"]

\* an End tag returns its Event when every required field is set, taking the
\* fields out of the reader
end_event(r, required, taken, event) ==
    IF \E f \in required : r[f] = None THEN FxErr("FibexStructure", r)
    ELSE FxOk(Some(event), Clear(r, taken))

\* Reader::read_event, XmlEvent::End
read_end(name, r) ==
    CASE name = "PDU" ->
           end_event(r, {"byte_length"}, {"short_name", "description", "byte_length"},
                     IF r.byte_length = None THEN EofEvent ELSE PduEnd(r))
      [] name = "SIGNAL-INSTANCE" ->
           end_event(r, {"id", "sequence_number", "ref"}, {"id", "sequence_number", "ref"},
                     IF \E f \in {"id", "sequence_number", "ref"} : r[f] = None
                     THEN EofEvent ELSE SignalInstance(r))
      [] name = "FRAME" ->
           end_event(r, {"short_name", "byte_length"}, {"short_name", "byte_length"},
                     IF \E f \in {"short_name", "byte_length"} : r[f] = None
                     THEN EofEvent ELSE FrameEnd(r))
      [] name = "PDU-INSTANCE" ->
           end_event(r, {"id", "sequence_number", "ref"}, {"id", "sequence_number", "ref"},
                     IF \E f \in {"id", "sequence_number", "ref"} : r[f] = None
                     THEN EofEvent ELSE PduInstance(r))
      [] name = "MANUFACTURER-EXTENSION" ->
           end_event(r, {}, {"application_id", "context_id", "message_type", "message_info"},
                     ManufacturerExtension(r))
      [] name = "SIGNAL" ->
           end_event(r, {"id", "ref"}, {"id", "ref"},
                     IF \E f \in {"id", "ref"} : r[f] = None
                     THEN EofEvent ELSE SignalEvent(r))
      [] name = "CODING" ->
           end_event(r, {"id", "base_data_type"}, {"id", "base_data_type"},
                     IF \E f \in {"id", "base_data_type"} : r[f] = None
                     THEN EofEvent ELSE CodingEvent(r))
      [] OTHER -> FxOk(None, r)

\* the fields of the reader after a Start or Empty tag that returns no Event:
\* the result holds no value, only the reader or the error
store_text(r, field) ==
    Bind(read_text(r), LAMBDA t :
    IF ~t.ok THEN t ELSE FxOk(None, [t.r EXCEPT ![field] = Some(t.val)]))

store_usize(r, field) ==
    Bind(read_usize(r), LAMBDA n :
    IF ~n.ok THEN n ELSE FxOk(None, [n.r EXCEPT ![field] = Some(n.val)]))

store_attr(attrs, name, r, field, resets) ==
    Bind(attr(attrs, name, r), LAMBDA a :
    IF ~a.ok THEN a ELSE FxOk(None, [Clear(r, resets) EXCEPT ![field] = Some(a.val)]))

\* description = read_text().ok(): an error of read_text leaves no description
\* and is not returned
store_description(r) ==
    Bind(read_text(r), LAMBDA t :
    FxOk(None, [t.r EXCEPT !.description = ok_or_none(t)]))

\* base_data_type = attr(BASE-DATA-TYPE).ok()
store_base_data_type(attrs, r) ==
    FxOk(None, [r EXCEPT !.base_data_type = ok_or_none(attr(attrs, "BASE-DATA-TYPE", r))])

\* the Event a tag that opens returns at once
start_event(ev, r, reset) ==
    Bind(attr(ev.attrs, "ID", r), LAMBDA a :
    IF ~a.ok THEN a
    ELSE FxOk(Some(IF ev.name = "PDU" THEN PduStart(a.val) ELSE FrameStart(a.val)),
              Clear(r, reset)))

\* Reader::read_event, XmlEvent::Start
read_start(ev, r) ==
    CASE ev.name = "PDU" -> start_event(ev, r, {"short_name", "byte_length", "description"})
      [] ev.name = "FRAME" -> start_event(ev, r, {"short_name", "byte_length"})
      [] TextField(ev.name) # "" -> store_text(r, TextField(ev.name))
      [] NumberField(ev.name) # "" -> store_usize(r, NumberField(ev.name))
      [] ev.name \in IdTags -> store_attr(ev.attrs, "ID", r, "id", IdResets(ev.name))
      [] ev.name \in {"SIGNAL-REF", "PDU-REF"} -> store_attr(ev.attrs, "ID-REF", r, "ref", {})
      [] ev.name \in {"PDU-TYPE", "FRAME-TYPE"} ->
           Bind(read_text(r), LAMBDA t : IF ~t.ok THEN t ELSE FxOk(None, t.r))
      [] ev.name = "MANUFACTURER-EXTENSION" ->
           FxOk(None, Clear(r, {"application_id", "context_id", "message_info",
                                "message_type"}))
      [] ev.name = "DESC" -> store_description(r)
      [] ev.name = "CODED-TYPE" -> store_base_data_type(ev.attrs, r)
      [] OTHER -> FxOk(None, r)

\* Reader::read_event, XmlEvent::Empty
read_empty(ev, r) ==
    CASE ev.name \in {"SIGNAL-REF", "PDU-REF", "CODING-REF"} ->
           store_attr(ev.attrs, "ID-REF", r, "ref", {})
      [] ev.name = "CODED-TYPE" -> store_base_data_type(ev.attrs, r)
      [] OTHER -> FxOk(None, r)

\* Reader::read_event: the next Event of the file; the value of a step is
\* None while the loop goes on
RECURSIVE read_event(_)
read_event(r) ==
    Bind(xml_read_event(r), LAMBDA x :
    IF ~x.ok THEN x
    ELSE IF x.val.k = "Eof" THEN FxOk(EofEvent, x.r)
    ELSE Bind(CASE x.val.k = "Start" -> read_start(x.val, x.r)
                [] x.val.k = "Empty" -> read_empty(x.val, x.r)
                [] x.val.k = "End" -> read_end(x.val.name, x.r)
                [] OTHER -> FxOk(None, x.r),
              LAMBDA s : IF ~s.ok THEN s
                         ELSE IF s.val = None THEN read_event(s.r)
                         ELSE FxOk(Unwrap(s.val), s.r)))

\* sort_by_key: the stable sort of (sequence_number, ref) pairs
RECURSIVE insert_by_key(_, _)
insert_by_key(sorted, item) ==
    IF sorted = <<>> THEN <<item>>
    ELSE IF sorted[Len(sorted)][1] <= item[1] THEN Append(sorted, item)
    ELSE Append(insert_by_key(SubSeq(sorted, 1, Len(sorted) - 1), item),
                sorted[Len(sorted)])

RECURSIVE sort_by_key(_)
sort_by_key(items) ==
    IF items = <<>> THEN <<>>
    ELSE insert_by_key(sort_by_key(SubSeq(items, 1, Len(items) - 1)), items[Len(items)])

Seconds(items) == [i \in 1..Len(items) |-> items[i][2]]

\* read_pdu: the description and the signal refs by sequence number.  The loop
\* ends only at the end of the PDU: it does not return when the file ends first
RECURSIVE read_pdu(_, _)
read_pdu(r, signal_refs) ==
    Bind(read_event(r), LAMBDA e :
    IF ~e.ok THEN e
    ELSE CASE e.val.k = "SignalInstance" ->
                read_pdu(e.r, Append(signal_refs,
                                     <<e.val.sequence_number, e.val.signal_ref>>))
           [] e.val.k = "PduEnd" ->
                FxOk([description |-> e.val.description,
                      signal_refs |-> Seconds(sort_by_key(signal_refs))], e.r)
           [] e.val.k = "Eof" -> FxErr("Diverges", e.r)
           [] OTHER -> read_pdu(e.r, signal_refs))

NewFrameReadData ==
    [context_id |-> None, application_id |-> None, message_type |-> None,
     message_info |-> None, pdus |-> <<>>]

\* read_frame
RECURSIVE read_frame(_, _)
read_frame(r, d) ==
    Bind(read_event(r), LAMBDA e :
    IF ~e.ok THEN e
    ELSE CASE e.val.k = "PduInstance" ->
                read_frame(e.r, [d EXCEPT !.pdus =
                                     Append(@, <<e.val.sequence_number, e.val.pdu_ref>>)])
           [] e.val.k = "ManufacturerExtension" ->
                read_frame(e.r, [d EXCEPT !.context_id = e.val.context_id,
                                          !.application_id = e.val.application_id,
                                          !.message_type = e.val.message_type,
                                          !.message_info = e.val.message_info])
           [] e.val.k = "FrameEnd" ->
                FxOk([short_name |-> e.val.short_name, context_id |-> d.context_id,
                      application_id |-> d.application_id,
                      message_type |-> d.message_type, message_info |-> d.message_info,
                      pdu_refs |-> Seconds(sort_by_key(d.pdus))], e.r)
           [] e.val.k = "Eof" -> FxErr("Diverges", e.r)
           [] OTHER -> read_frame(e.r, d))

-----------------------------------------------------------------------------
(* fibex/mod.rs: the model built from the FIBEX files *)

\* HashMap: a function from the keys present to their values
EmptyMap == [key \in {} |-> None]

map_get(map, key) == IF key \in DOMAIN map THEN Some(map[key]) ELSE None

\* HashMap::insert: the new value replaces the one stored
map_insert(map, key, val) ==
    [k \in DOMAIN map \cup {key} |-> IF k = key THEN val ELSE map[k]]

\* the mutant of entry_insert: a later entry replaces the one stored
entry_insert_replacing(map, key, val) == map_insert(map, key, val)

\* HashMap::entry, Entry::Vacant(v) => v.insert(val), Entry::Occupied => warn
entry_insert(map, key, val) ==
    IF key \in DOMAIN map THEN map ELSE map_insert(map, key, val)

FibexType(kind, width, coding) == TypeInfo(kind, width, coding, FALSE, FALSE)

\* type_info_for_signal_ref: the base types of the codings
type_info_for_base_type(base_type) ==
    CASE base_type = "A_UINT8" -> Some(FibexType("Unsigned", 8, "ASCII"))
      [] base_type \in {"A_INT8", "A_SINT8"} -> Some(FibexType("Signed", 8, "ASCII"))
      [] base_type = "A_UINT16" -> Some(FibexType("Unsigned", 16, "ASCII"))
      [] base_type \in {"A_INT16", "A_SINT16"} -> Some(FibexType("Signed", 16, "ASCII"))
      [] base_type = "A_UINT32" -> Some(FibexType("Unsigned", 32, "ASCII"))
      [] base_type \in {"A_INT32", "A_SINT32"} -> Some(FibexType("Signed", 32, "ASCII"))
      [] base_type = "A_UINT64" -> Some(FibexType("Unsigned", 64, "ASCII"))
      [] base_type \in {"A_INT64", "A_SINT64"} -> Some(FibexType("Signed", 64, "ASCII"))
      [] base_type = "A_FLOAT32" -> Some(FibexType("Float", 32, "ASCII"))
      [] base_type = "A_FLOAT64" -> Some(FibexType("Float", 64, "ASCII"))
      [] base_type = "A_ASCIISTRING" -> Some(FibexType("StringType", 0, "ASCII"))
      [] base_type = "A_UNICODE2STRING" -> Some(FibexType("StringType", 0, "UTF8"))
      [] OTHER -> None

\* type_info_for_signal_ref
type_info_for_signal_ref(signal_ref, signals, codings) ==
    CASE signal_ref = "S_BOOL" -> Some(FibexType("Bool", 0, "ASCII"))
      [] signal_ref = "S_SINT8" -> Some(FibexType("Signed", 8, "ASCII"))
      [] signal_ref = "S_UINT8" -> Some(FibexType("Unsigned", 8, "ASCII"))
      [] signal_ref = "S_SINT16" -> Some(FibexType("Signed", 16, "ASCII"))
      [] signal_ref = "S_UINT16" -> Some(FibexType("Unsigned", 16, "ASCII"))
      [] signal_ref = "S_SINT32" -> Some(FibexType("Signed", 32, "ASCII"))
      [] signal_ref = "S_UINT32" -> Some(FibexType("Unsigned", 32, "ASCII"))
      [] signal_ref = "S_SINT64" -> Some(FibexType("Signed", 64, "ASCII"))
      [] signal_ref = "S_UINT64" -> Some(FibexType("Unsigned", 64, "ASCII"))
      [] signal_ref = "S_FLOA16" -> None
      [] signal_ref = "S_FLOA32" -> Some(FibexType("Float", 32, "ASCII"))
      [] signal_ref = "S_FLOA64" -> Some(FibexType("Float", 64, "ASCII"))
      [] signal_ref = "S_STRG_ASCII" -> Some(FibexType("StringType", 0, "ASCII"))
      [] signal_ref = "S_STRG_UTF8" -> Some(FibexType("StringType", 0, "UTF8"))
      [] signal_ref \in {"S_RAWD", "S_RAW"} -> Some(FibexType("Raw", 0, "ASCII"))
      [] OTHER ->
           IF signal_ref \in DOMAIN signals /\ signals[signal_ref] \in DOMAIN codings
           THEN type_info_for_base_type(codings[signals[signal_ref]])
           ELSE None

\* filter_map(type_info_for_signal_ref).collect()
RECURSIVE signal_types(_, _, _)
signal_types(signal_refs, signals, codings) ==
    IF signal_refs = <<>> THEN <<>>
    ELSE Bind(type_info_for_signal_ref(signal_refs[1], signals, codings), LAMBDA t :
         (IF t = None THEN <<>> ELSE <<Unwrap(t)>>)
             \o signal_types(Tail(signal_refs), signals, codings))

PduMetadata(description, types) == [description |-> description, signal_types |-> types]

FrameMetadata(short_name, pdus, application_id, context_id, message_type, message_info) ==
    [short_name |-> short_name, pdus |-> pdus, application_id |-> application_id,
     context_id |-> context_id, message_type |-> message_type,
     message_info |-> message_info]

FrameMetadataIdentification(context_id, app_id, frame_id) ==
    [context_id |-> context_id, app_id |-> app_id, frame_id |-> frame_id]

FibexMetadata(frame_map_with_key, frame_map) ==
    [frame_map_with_key |-> frame_map_with_key, frame_map |-> frame_map]

\* what read_fibexes gathers from the files
NewGathered ==
    [pdus |-> <<>>, frames |-> <<>>, signals_map |-> EmptyMap, codings_map |-> EmptyMap]

\* read_fibexes: the loop over the Events of one file
RECURSIVE read_file(_, _)
read_file(r, g) ==
    Bind(read_event(r), LAMBDA e :
    IF ~e.ok THEN e
    ELSE CASE e.val.k = "PduStart" ->
                Bind(read_pdu(e.r, <<>>), LAMBDA p :
                IF ~p.ok THEN p
                ELSE read_file(p.r, [g EXCEPT !.pdus = Append(@, <<e.val.id, p.val>>)]))
           [] e.val.k = "FrameStart" ->
                Bind(read_frame(e.r, NewFrameReadData), LAMBDA f :
                IF ~f.ok THEN f
                ELSE read_file(f.r, [g EXCEPT !.frames = Append(@, <<e.val.id, f.val>>)]))
           [] e.val.k = "Eof" -> FxOk(g, e.r)
           [] e.val.k = "Signal" ->
                read_file(e.r, [g EXCEPT !.signals_map =
                                    map_insert(@, e.val.id, e.val.coding_ref)])
           [] e.val.k = "Coding" ->
                read_file(e.r, [g EXCEPT !.codings_map =
                                    map_insert(@, e.val.id, e.val.base_data_type)])
           [] OTHER -> read_file(e.r, g))

\* read_fibexes: the loop over the files; a file that cannot be opened is an
\* I/O error
RECURSIVE read_files(_, _)
read_files(files, g) ==
    IF files = <<>> THEN FxOk(g, None)
    ELSE IF ~files[1].open THEN FxErr("Io", None)
    ELSE Bind(read_file(NewReader(files[1].events), g), LAMBDA x :
         IF ~x.ok THEN x ELSE read_files(Tail(files), x.val))

\* read_fibexes: the PDUs by id
RECURSIVE collect_pdus(_, _, _)
collect_pdus(pdus, g, pdu_by_id) ==
    IF pdus = <<>> THEN pdu_by_id
    ELSE collect_pdus(Tail(pdus), g,
             entry_insert(pdu_by_id, pdus[1][1],
                 PduMetadata(pdus[1][2].description,
                             signal_types(pdus[1][2].signal_refs,
                                          g.signals_map, g.codings_map))))

\* read_fibexes: the frames in reading order; a reference to a PDU that no file
\* defines is an error
RECURSIVE collect_frames(_, _, _)
collect_frames(frames, pdu_by_id, m) ==
    IF frames = <<>> THEN FxOk(m, None)
    ELSE IF \E i \in 1..Len(frames[1][2].pdu_refs) :
                frames[1][2].pdu_refs[i] \notin DOMAIN pdu_by_id
    THEN FxErr("FibexStructure", None)
    ELSE Bind(FrameMetadata(frames[1][2].short_name,
                            [i \in 1..Len(frames[1][2].pdu_refs) |->
                                 pdu_by_id[frames[1][2].pdu_refs[i]]],
                            frames[1][2].application_id, frames[1][2].context_id,
                            frames[1][2].message_type, frames[1][2].message_info),
         LAMBDA frame :
         collect_frames(Tail(frames), pdu_by_id,
             FibexMetadata(
                 IF frame.context_id # None /\ frame.application_id # None
                 THEN entry_insert(m.frame_map_with_key,
                          FrameMetadataIdentification(Unwrap(frame.context_id),
                              Unwrap(frame.application_id), frames[1][1]),
                          frame)
                 ELSE m.frame_map_with_key,
                 entry_insert(m.frame_map, frames[1][1], frame))))

\* read_fibexes
read_fibexes(files) ==
    Bind(read_files(files, NewGathered), LAMBDA g :
    IF ~g.ok THEN g
    ELSE collect_frames(g.val.frames, collect_pdus(g.val.pdus, g.val, EmptyMap),
                        FibexMetadata(EmptyMap, EmptyMap)))

\* format!("{}", id) of an unsigned number: its decimal digits
Digit(d) == <<"0", "1", "2", "3", "4", "5", "6", "7", "8", "9">>[d + 1]

RECURSIVE format_u32(_)
format_u32(n) == IF n < 10 THEN Digit(n) ELSE format_u32(n \div 10) \o Digit(n % 10)

\* the mutant of extract_metadata: a key that is absent falls back to the
\* frame id alone
extract_metadata_with_fallback(fibex_metadata, id, extended_header) ==
    IF extended_header # None
          /\ FrameMetadataIdentification(Unwrap(extended_header).context_id,
                                         Unwrap(extended_header).application_id,
                                         "ID_" \o format_u32(id))
                 \in DOMAIN fibex_metadata.frame_map_with_key
    THEN Some(fibex_metadata.frame_map_with_key[
                  FrameMetadataIdentification(Unwrap(extended_header).context_id,
                                              Unwrap(extended_header).application_id,
                                              "ID_" \o format_u32(id))])
    ELSE map_get(fibex_metadata.frame_map, "ID_" \o format_u32(id))

\* extract_metadata; the extended header is None or Some
extract_metadata(fibex_metadata, id, extended_header) ==
    IF extended_header # None
    THEN map_get(fibex_metadata.frame_map_with_key,
                 FrameMetadataIdentification(Unwrap(extended_header).context_id,
                                             Unwrap(extended_header).application_id,
                                             "ID_" \o format_u32(id)))
    ELSE map_get(fibex_metadata.frame_map, "ID_" \o format_u32(id))

-----------------------------------------------------------------------------
(* the FIBEX files of the test cases *)

MaxElements == 3

\* the elements of a file: PDU, FRAME, SIGNAL and CODING, and what is wrong
\* with the element
PduElement(id, desc, refs, fault) ==
    [k |-> "pdu", id |-> id, desc |-> desc, refs |-> refs, fault |-> fault]
FrameElement(id, name, ext, refs, fault) ==
    [k |-> "frame", id |-> id, name |-> name, ext |-> ext, refs |-> refs, fault |-> fault]
SignalElement(id, coding_ref) == [k |-> "signal", id |-> id, coding_ref |-> coding_ref]
CodingElement(id, base) == [k |-> "coding", id |-> id, base |-> base]

RoutingIds(context_id, application_id) ==
    [context_id |-> context_id, application_id |-> application_id]

TextTag(name, text) == <<XStart(name, <<>>), XText(text), XEnd(name)>>

\* <SIGNAL-INSTANCE ID=..><SEQUENCE-NUMBER>i-1</..><SIGNAL-REF ID-REF=../></..>
InstanceXml(elem_tag, ref_tag, ref, i) ==
    <<XStart(elem_tag, <<Attr("ID", "I")>>)>>
        \o TextTag("SEQUENCE-NUMBER", Digit(i - 1))
        \o <<XEmpty(ref_tag, <<Attr("ID-REF", ref)>>), XEnd(elem_tag)>>

\* the instances in document order
RECURSIVE InstancesXml(_, _, _, _)
InstancesXml(elem_tag, ref_tag, refs, i) ==
    IF i > Len(refs) THEN <<>>
    ELSE InstanceXml(elem_tag, ref_tag, refs[i], i) \o InstancesXml(elem_tag, ref_tag, refs, i + 1)

\* the instances with the last sequence number first
RECURSIVE ReversedInstancesXml(_, _, _, _)
ReversedInstancesXml(elem_tag, ref_tag, refs, i) ==
    IF i < 1 THEN <<>>
    ELSE InstanceXml(elem_tag, ref_tag, refs[i], i)
             \o ReversedInstancesXml(elem_tag, ref_tag, refs, i - 1)

\* the attributes of the elem_tag that opens an element
IdAttrs(e) ==
    CASE e.fault = "no_id" -> <<Attr("OID", "x")>>
      [] e.fault = "bad_attr" -> <<BadAttr, Attr("ID", e.id)>>
      [] OTHER -> <<Attr("ID", e.id)>>

\* <DESC>: a text, a text with an entity that cannot be unescaped, or no text
DescXml(e) ==
    CASE e.fault = "bad_desc" -> <<XStart("DESC", <<>>), XBadText, XEnd("DESC")>>
      [] e.fault = "empty_desc" -> <<XStart("DESC", <<>>), XEnd("DESC")>>
      [] e.desc = None -> <<>>
      [] OTHER -> TextTag("DESC", Unwrap(e.desc))

ByteLengthXml(e) ==
    CASE e.fault = "no_byte_length" -> <<>>
      [] e.fault = "bad_number" -> TextTag("BYTE-LENGTH", "x")
      [] OTHER -> TextTag("BYTE-LENGTH", "4")

PduXml(e) ==
    <<XStart("PDU", IdAttrs(e))>>
        \o TextTag("SHORT-NAME", "Pdu") \o DescXml(e) \o ByteLengthXml(e)
        \o TextTag("PDU-TYPE", "OTHER")
        \o (IF e.fault = "xml" THEN <<XFail>> ELSE <<>>)
        \o <<XStart("SIGNAL-INSTANCES", <<>>)>>
        \o ReversedInstancesXml("SIGNAL-INSTANCE", "SIGNAL-REF", e.refs, Len(e.refs))
        \o <<XEnd("SIGNAL-INSTANCES"), XEnd("PDU")>>

ManufacturerExtensionXml(e) ==
    IF e.ext = None THEN <<>>
    ELSE <<XStart("MANUFACTURER-EXTENSION", <<>>)>>
             \o TextTag("MESSAGE_TYPE", "DLT_TYPE_LOG")
             \o TextTag("MESSAGE_INFO", "DLT_LOG_INFO")
             \o TextTag("APPLICATION_ID", Unwrap(e.ext).application_id)
             \o TextTag("CONTEXT_ID", Unwrap(e.ext).context_id)
             \o <<XEnd("MANUFACTURER-EXTENSION")>>

FrameXml(e) ==
    <<XStart("FRAME", IdAttrs(e))>>
        \o (IF e.fault = "no_short_name" THEN <<>> ELSE TextTag("SHORT-NAME", e.name))
        \o ByteLengthXml(e) \o TextTag("FRAME-TYPE", "OTHER")
        \o (IF e.fault = "xml" THEN <<XFail>> ELSE <<>>)
        \o <<XStart("PDU-INSTANCES", <<>>)>>
        \o InstancesXml("PDU-INSTANCE", "PDU-REF", e.refs, 1)
        \o <<XEnd("PDU-INSTANCES")>>
        \o ManufacturerExtensionXml(e)
        \o <<XEnd("FRAME")>>

SignalXml(e) ==
    <<XStart("SIGNAL", <<Attr("ID", e.id)>>)>>
        \o TextTag("SHORT-NAME", "Signal")
        \o <<XEmpty("CODING-REF", <<Attr("ID-REF", e.coding_ref)>>), XEnd("SIGNAL")>>

CodingXml(e) ==
    <<XStart("CODING", <<Attr("ID", e.id)>>),
      XEmpty("CODED-TYPE", <<NsAttr("CATEGORY", "STANDARD-LENGTH-TYPE"),
                             NsAttr("BASE-DATA-TYPE", e.base)>>),
      XEnd("CODING")>>

ElementXml(e) ==
    CASE e.k = "pdu" -> PduXml(e)
      [] e.k = "frame" -> FrameXml(e)
      [] e.k = "signal" -> SignalXml(e)
      [] OTHER -> CodingXml(e)

RECURSIVE ElementsXml(_)
ElementsXml(elems) ==
    IF elems = <<>> THEN <<>> ELSE ElementXml(elems[1]) \o ElementsXml(Tail(elems))

\* a file that opens, with its elements in document order
FibexFile(elems) ==
    [open |-> TRUE,
     events |-> <<XStart("FIBEX", <<>>), XText(" ")>> \o ElementsXml(elems)
                    \o <<XEnd("FIBEX")>>]

\* a path with no file
MissingFile == [open |-> FALSE, events |-> <<>>]

PduFaults == {"no_id", "bad_attr", "xml", "no_byte_length", "bad_number", "bad_desc",
              "empty_desc"}

\* the faults that are an XML, structural, attribute or number error in the
\* element; a DESC without text is none of them
ElementErrors == {"no_id", "bad_attr", "xml", "no_byte_length", "bad_number",
                  "bad_desc", "no_short_name"}

GoodElements ==
    {PduElement("P1", Some("first"), <<"S_UINT8", "S_FLOA16", "S1">>, "none"),
     PduElement("P1", Some("second"), <<"S_BOOL">>, "none"),
     PduElement("P2", None, <<"S_STRG_UTF8">>, "none"),
     FrameElement("ID_1", "FrameA", Some(RoutingIds("C1", "A1")), <<"P1">>, "none"),
     FrameElement("ID_1", "FrameB", Some(RoutingIds("C1", "A1")), <<"P1">>, "none"),
     FrameElement("ID_1", "FrameC", None, <<"P1">>, "none"),
     FrameElement("ID_10", "FrameD", Some(RoutingIds("C2", "A1")), <<"P1", "P2">>, "none"),
     FrameElement("ID_2", "FrameU", None, <<"P9">>, "none"),
     SignalElement("S1", "C1"),
     CodingElement("C1", "A_SINT16")}

FaultyElements ==
    {PduElement("P2", Some("text"), <<"S_UINT8">>, f) : f \in PduFaults}
        \cup {FrameElement("ID_10", "FrameF", None, <<>>, "no_short_name")}

\* the files of a test case: the elements in one file, or in two files split
\* at an element, or in one file followed by a path with no file
FibexFiles(elems, split, missing) ==
    IF missing THEN <<FibexFile(elems), MissingFile>>
    ELSE IF split = Len(elems) THEN <<FibexFile(elems)>>
    ELSE <<FibexFile(SubSeq(elems, 1, split)),
           FibexFile(SubSeq(elems, split + 1, Len(elems)))>>

FibexCase ==
    \E n \in 1..MaxElements : \E elems \in [1..n -> GoodElements \cup FaultyElements] :
    \E split \in 1..n, missing \in BOOLEAN :
        /\ missing => split = n
        /\ tc = [op |-> "fibex", elems |-> elems, split |-> split, missing |-> missing,
                 files |-> FibexFiles(elems, split, missing)]

InitFibex ==
    /\ FibexCase
    /\ res = <<>>
    /\ rem = Unused /\ stream = Unused /\ sync = Unused /\ async = Unused
    /\ stats = Unused

\* what read_fibexes returns: the model or the kind of the error
Loaded(x) == IF x.ok THEN [ok |-> TRUE, val |-> x.val] ELSE [ok |-> FALSE, err |-> x.err]

\* read_fibexes on the files of the test case
CallReadFibexes ==
    /\ tc.op = "fibex" /\ res = <<>>
    /\ res' = <<Loaded(read_fibexes(tc.files))>>
    /\ UNCHANGED <<tc, rem, stream, sync, async, stats>>

LookupIds == {1, 2, 10}

LookupHeaders ==
    {None, Some(RoutingIds("C1", "A1")), Some(RoutingIds("C2", "A1")),
     Some(RoutingIds("A1", "C1"))}

\* extract_metadata on the model that was loaded
CallExtractMetadata ==
    /\ tc.op = "fibex" /\ Len(res) = 1 /\ res[1].ok
    /\ \E id \in LookupIds, ext \in LookupHeaders :
           res' = Append(res, [id |-> id, ext |-> ext,
                               val |-> extract_metadata(res[1].val, id, ext)])
    /\ UNCHANGED <<tc, rem, stream, sync, async, stats>>

NextFibex ==
    \/ CallReadFibexes
    \/ CallExtractMetadata

SpecFibex == InitFibex /\ [][NextFibex]_vars

-----------------------------------------------------------------------------
(* fibex/mod.rs: the claims *)

FibexLoaded == tc.op = "fibex" /\ Len(res) >= 1 /\ res[1].ok

\* the text of the frame id of a lookup
FrameIdText(id) == CASE id = 1 -> "ID_1" [] id = 2 -> "ID_2" [] id = 10 -> "ID_10"

LookupKey(l) ==
    [context_id |-> Unwrap(l.ext).context_id, app_id |-> Unwrap(l.ext).application_id,
     frame_id |-> FrameIdText(l.id)]

\* C11: extract_metadata(metadata, id, ext) looks up the frame id "ID_<id>":
\* with an extended header it returns exactly the entry of the keyed map for
\* (ext.context_id, ext.application_id, "ID_<id>"), and None when that key is
\* absent, even if the frame id is in the map by frame id alone; without an
\* extended header it returns the entry of the map by frame id alone
C11_Lookup ==
    (FibexLoaded /\ Len(res) = 2) =>
        IF res[2].ext # None
        THEN IF LookupKey(res[2]) \in DOMAIN res[1].val.frame_map_with_key
             THEN res[2].val = Some(res[1].val.frame_map_with_key[LookupKey(res[2])])
             ELSE res[2].val = None
        ELSE IF FrameIdText(res[2].id) \in DOMAIN res[1].val.frame_map
             THEN res[2].val = Some(res[1].val.frame_map[FrameIdText(res[2].id)])
             ELSE res[2].val = None

\* a lookup of frame 10 with an extended header whose key is absent while the
\* frame id is in the map by frame id alone
C11_Witness ==
    /\ FibexLoaded /\ Len(res) = 2
    /\ res[2].id = 10 /\ res[2].ext = Some(RoutingIds("C1", "A1"))
    /\ "ID_10" \in DOMAIN res[1].val.frame_map
    /\ res[1].val.frame_map_with_key # EmptyMap
    /\ LookupKey(res[2]) \notin DOMAIN res[1].val.frame_map_with_key
    /\ res[2].val = None

\* the elements of a kind in reading order: the files in the given order, each
\* in document order
IndexesOf(kind) == {i \in 1..Len(tc.elems) : tc.elems[i].k = kind}

\* the first element of the kind with the id
FirstIndex(kind, id) ==
    CHOOSE i \in IndexesOf(kind) :
        /\ tc.elems[i].id = id
        /\ \A j \in IndexesOf(kind) : tc.elems[j].id = id => i <= j

\* the types of the signal refs the test cases use
ExpectedType(ref) ==
    CASE ref = "S_UINT8" -> <<FibexType("Unsigned", 8, "ASCII")>>
      [] ref = "S_BOOL" -> <<FibexType("Bool", 0, "ASCII")>>
      [] ref = "S_STRG_UTF8" -> <<FibexType("StringType", 0, "UTF8")>>
      [] ref = "S1" ->
           IF /\ \E i \in IndexesOf("signal") : tc.elems[i] = SignalElement("S1", "C1")
              /\ \E i \in IndexesOf("coding") :
                     tc.elems[i] = CodingElement("C1", "A_SINT16")
           THEN <<FibexType("Signed", 16, "ASCII")>> ELSE <<>>
      [] OTHER -> <<>>

RECURSIVE ExpectedTypes(_)
ExpectedTypes(refs) ==
    IF refs = <<>> THEN <<>> ELSE ExpectedType(refs[1]) \o ExpectedTypes(Tail(refs))

\* the PduMetadata of a PDU element of a file that loads
ExpectedPdu(e) ==
    [description |-> IF e.fault = "none" THEN e.desc ELSE None,
     signal_types |-> ExpectedTypes(e.refs)]

\* the FrameMetadata of a FRAME element: its PDUs are the first of their ids
ExpectedFrame(e) ==
    [short_name |-> e.name,
     pdus |-> [i \in 1..Len(e.refs) |->
                   ExpectedPdu(tc.elems[FirstIndex("pdu", e.refs[i])])],
     application_id |-> IF e.ext = None THEN None ELSE Some(Unwrap(e.ext).application_id),
     context_id |-> IF e.ext = None THEN None ELSE Some(Unwrap(e.ext).context_id),
     message_type |-> IF e.ext = None THEN None ELSE Some("DLT_TYPE_LOG"),
     message_info |-> IF e.ext = None THEN None ELSE Some("DLT_LOG_INFO")]

KeyOf(e) ==
    [context_id |-> Unwrap(e.ext).context_id, app_id |-> Unwrap(e.ext).application_id,
     frame_id |-> e.id]

KeyedIndexes == {i \in IndexesOf("frame") : tc.elems[i].ext # None}

\* C14: of several PDU elements with one id, and of several FRAME elements
\* with one id (in the keyed map: with one (context_id, app_id, frame_id)),
\* the model holds the first in reading order, unaltered by the later ones
C14_FirstWins ==
    FibexLoaded =>
        /\ DOMAIN res[1].val.frame_map = {tc.elems[i].id : i \in IndexesOf("frame")}
        /\ DOMAIN res[1].val.frame_map_with_key = {KeyOf(tc.elems[i]) : i \in KeyedIndexes}
        /\ \A i \in IndexesOf("frame") :
               (\A j \in IndexesOf("frame") : tc.elems[j].id = tc.elems[i].id => i <= j)
                   => res[1].val.frame_map[tc.elems[i].id] = ExpectedFrame(tc.elems[i])
        /\ \A i \in KeyedIndexes :
               (\A j \in KeyedIndexes : KeyOf(tc.elems[j]) = KeyOf(tc.elems[i]) => i <= j)
                   => res[1].val.frame_map_with_key[KeyOf(tc.elems[i])]
                          = ExpectedFrame(tc.elems[i])

\* two files: the first with a PDU and the frame FrameA, the second with the
\* frame FrameB of the same id and key; the model holds FrameA in both maps
C14_Witness ==
    /\ FibexLoaded /\ Len(tc.files) = 2 /\ Len(tc.elems) = 3 /\ tc.split = 2
    /\ tc.elems[1].k = "pdu" /\ tc.elems[1].desc = Some("first")
    /\ tc.elems[2].k = "frame" /\ tc.elems[2].name = "FrameA"
    /\ tc.elems[3].k = "frame" /\ tc.elems[3].name = "FrameB"
    /\ res[1].val.frame_map["ID_1"].short_name = "FrameA"
    /\ res[1].val.frame_map_with_key[KeyOf(tc.elems[3])].short_name = "FrameA"

\* a frame refers to a PDU id that no PDU element defines
UndefinedPduRef ==
    \E i \in IndexesOf("frame") : \E n \in 1..Len(tc.elems[i].refs) :
        \A j \in IndexesOf("pdu") : tc.elems[j].id # tc.elems[i].refs[n]

\* an element of a file has an XML, structural, attribute or number error, or
\* a file cannot be opened
ReadError ==
    \/ tc.missing
    \/ \E i \in 1..Len(tc.elems) :
           tc.elems[i].k \in {"pdu", "frame"} /\ tc.elems[i].fault \in ElementErrors

\* C15: every XML, structural, attribute or I/O error in an element of a file,
\* and every frame that refers to a PDU id no PDU defines, makes read_fibexes
\* return an error and no model
C15_ErrorsHalt ==
    (tc.op = "fibex" /\ Len(res) >= 1 /\ (ReadError \/ UndefinedPduRef)) => ~res[1].ok

-----------------------------------------------------------------------------
(* fibex/mod.rs: the loops of read_fibexes, read_pdu and read_frame, one pass
   of a loop per step *)

MaxLoadElements == 2

\* the loader: pc is the loop it is in, files the files not yet opened, r the
\* reader of the open file, g what was gathered, id and acc the element that
\* read_pdu or read_frame is reading
Loader(pc, files, r, g, id, acc) ==
    [pc |-> pc, files |-> files, r |-> r, g |-> g, id |-> id, acc |-> acc]

\* a file that ends early: the first cut events of a file
TruncatedFile(elems, cut) ==
    [open |-> TRUE, events |-> Take(FibexFile(elems).events, cut)]

TruncatedCase ==
    \E n \in 1..MaxLoadElements : \E elems \in [1..n -> GoodElements] :
    \E cut \in 0..Len(FibexFile(elems).events) :
        tc = [op |-> "load", elems |-> elems, cut |-> cut,
              files |-> <<TruncatedFile(elems, cut)>>]

InitLoad ==
    /\ TruncatedCase
    /\ rem = Loader("open", tc.files, None, NewGathered, "", <<>>)
    /\ res = <<>>
    /\ stream = Unused /\ sync = Unused /\ async = Unused /\ stats = Unused

\* read_fibexes returns
LoadReturns(x) ==
    /\ res' = <<Loaded(x)>>
    /\ rem' = [rem EXCEPT !.pc = "done"]

LoadGoesOn(ld) == rem' = ld /\ res' = res

\* for f in files: Reader::from_file(f)?
OpenFile ==
    /\ tc.op = "load" /\ rem.pc = "open"
    /\ IF rem.files = <<>> THEN LoadGoesOn([rem EXCEPT !.pc = "build"])
       ELSE IF ~rem.files[1].open THEN LoadReturns(FxErr("Io", None))
       ELSE LoadGoesOn([rem EXCEPT !.pc = "file", !.files = Tail(@),
                                   !.r = NewReader(rem.files[1].events)])
    /\ UNCHANGED <<tc, stream, sync, async, stats>>

\* one pass of the loop of read_fibexes over the Events of a file
StepFile ==
    /\ tc.op = "load" /\ rem.pc = "file"
    /\ LET e == read_event(rem.r) IN
       IF ~e.ok THEN LoadReturns(e)
       ELSE CASE e.val.k = "PduStart" ->
                   LoadGoesOn([rem EXCEPT !.pc = "pdu", !.r = e.r, !.id = e.val.id,
                                          !.acc = <<>>])
              [] e.val.k = "FrameStart" ->
                   LoadGoesOn([rem EXCEPT !.pc = "frame", !.r = e.r, !.id = e.val.id,
                                          !.acc = NewFrameReadData])
              [] e.val.k = "Eof" -> LoadGoesOn([rem EXCEPT !.pc = "open", !.r = e.r])
              [] e.val.k = "Signal" ->
                   LoadGoesOn([rem EXCEPT !.r = e.r, !.g.signals_map =
                                   map_insert(@, e.val.id, e.val.coding_ref)])
              [] e.val.k = "Coding" ->
                   LoadGoesOn([rem EXCEPT !.r = e.r, !.g.codings_map =
                                   map_insert(@, e.val.id, e.val.base_data_type)])
              [] OTHER -> LoadGoesOn([rem EXCEPT !.r = e.r])
    /\ UNCHANGED <<tc, stream, sync, async, stats>>

\* one pass of the loop of read_pdu: every Event but SignalInstance and PduEnd
\* is passed over, Eof too
StepPdu ==
    /\ tc.op = "load" /\ rem.pc = "pdu"
    /\ LET e == read_event(rem.r) IN
       IF ~e.ok THEN LoadReturns(e)
       ELSE CASE e.val.k = "SignalInstance" ->
                   LoadGoesOn([rem EXCEPT !.r = e.r, !.acc =
                                   Append(@, <<e.val.sequence_number, e.val.signal_ref>>)])
              [] e.val.k = "PduEnd" ->
                   LoadGoesOn([rem EXCEPT !.pc = "file", !.r = e.r, !.g.pdus =
                                   Append(@, <<rem.id,
                                               [description |-> e.val.description,
                                                signal_refs |->
                                                    Seconds(sort_by_key(rem.acc))]>>)])
              [] OTHER -> LoadGoesOn([rem EXCEPT !.r = e.r])
    /\ UNCHANGED <<tc, stream, sync, async, stats>>

\* one pass of the loop of read_frame
StepFrame ==
    /\ tc.op = "load" /\ rem.pc = "frame"
    /\ LET e == read_event(rem.r) IN
       IF ~e.ok THEN LoadReturns(e)
       ELSE CASE e.val.k = "PduInstance" ->
                   LoadGoesOn([rem EXCEPT !.r = e.r, !.acc.pdus =
                                   Append(@, <<e.val.sequence_number, e.val.pdu_ref>>)])
              [] e.val.k = "ManufacturerExtension" ->
                   LoadGoesOn([rem EXCEPT !.r = e.r,
                                          !.acc.context_id = e.val.context_id,
                                          !.acc.application_id = e.val.application_id,
                                          !.acc.message_type = e.val.message_type,
                                          !.acc.message_info = e.val.message_info])
              [] e.val.k = "FrameEnd" ->
                   LoadGoesOn([rem EXCEPT !.pc = "file", !.r = e.r, !.g.frames =
                                   Append(@, <<rem.id,
                                               [short_name |-> e.val.short_name,
                                                context_id |-> rem.acc.context_id,
                                                application_id |-> rem.acc.application_id,
                                                message_type |-> rem.acc.message_type,
                                                message_info |-> rem.acc.message_info,
                                                pdu_refs |->
                                                    Seconds(sort_by_key(rem.acc.pdus))]>>)])
              [] OTHER -> LoadGoesOn([rem EXCEPT !.r = e.r])
    /\ UNCHANGED <<tc, stream, sync, async, stats>>

\* read_fibexes after the files: the maps of the model
BuildModel ==
    /\ tc.op = "load" /\ rem.pc = "build"
    /\ LoadReturns(collect_frames(rem.g.frames,
                                  collect_pdus(rem.g.pdus, rem.g, EmptyMap),
                                  FibexMetadata(EmptyMap, EmptyMap)))
    /\ UNCHANGED <<tc, stream, sync, async, stats>>

NextLoad ==
    \/ OpenFile
    \/ StepFile
    \/ StepPdu
    \/ StepFrame
    \/ BuildModel

SpecLoad == InitLoad /\ [][NextLoad]_vars

\* the file ends between the tag that opens a PDU or a FRAME and the tag that
\* ends it
EndsInsideElement ==
    /\ tc.op = "load" /\ rem.pc \in {"pdu", "frame"}
    /\ rem.r.pos = Len(rem.r.events)

\* the next pass of the loop the loader is in returns from read_fibexes, leaves
\* the loop, or reads at least one event of the file
PassAdvances ==
    Bind(read_event(rem.r), LAMBDA e :
        \/ ~e.ok
        \/ rem.pc = "file" /\ e.val.k = "Eof"
        \/ e.r.pos > rem.r.pos)

\* C27: read_fibexes terminates on every finite file: every pass of its loops
\* ends the load or reads on in the file, also when the file ends inside a PDU
\* or a FRAME
C27_LoadTerminates == (tc.op = "load" /\ rem.pc \in {"file", "pdu", "frame"}) => PassAdvances

\* outside of PDU and FRAME elements every pass ends the load or reads on
LoadTerminatesOutsideElements == (tc.op = "load" /\ rem.pc = "file") => PassAdvances

\* inside an element only the end of the file stops the reading
LoadStopsAtEndOfFile == (tc.op = "load" /\ rem.pc \in {"pdu", "frame"} /\ ~PassAdvances) => EndsInsideElement

\* a load that ends returns what read_fibexes returns for the file
LoadAsReadFibexes == (tc.op = "load" /\ rem.pc = "done") => res[1] = Loaded(read_fibexes(tc.files))

\* a load that stops inside an element is a call of read_fibexes that does not
\* return
StoppedLoadDiverges == (EndsInsideElement /\ ~PassAdvances) => Loaded(read_fibexes(tc.files)) = Loaded(FxErr("Diverges", None))

-----------------------------------------------------------------------------
(* statistics.rs: the scan of a DLT file *)

BIN_MIN_BUFFER_SPACE == 10 * 1024

StatisticRowInfo(app_id_context_id, ecu_id, level, verbose) ==
    [app_id_context_id |-> app_id_context_id, ecu_id |-> ecu_id, level |-> level,
     verbose |-> verbose]

dlt_statistic_row_info(input, with_storage_header) ==
    Bind(IF with_storage_header THEN skip_till_after_next_storage_header(input)
         ELSE DltOk(input, 0), LAMBDA s :
    IF ~s.ok THEN s
    ELSE Bind(dlt_standard_header(s.rest), LAMBDA hd :
    \* hd.rest: after_storage_and_normal_header, hd.val: header
    IF ~IsOk(hd) THEN nom_to_dlt_parse_error(hd)
    ELSE Bind(validated_payload_length(hd.val, Len(input)), LAMBDA payload_length :
    IF payload_length.t = "Err"
    THEN DltOk(hd.rest, StatisticRowInfo(None, hd.val.ecu_id, None, FALSE))
    ELSE IF ~hd.val.has_extended_header
    THEN FromNom(AndThen(take(payload_length.val, hd.rest), LAMBDA after_message :
         Ok(after_message.rest, StatisticRowInfo(None, hd.val.ecu_id, None, FALSE))))
    ELSE FromNom(AndThen(dlt_extended_header(hd.rest), LAMBDA eh :
         AndThen(take(payload_length.val, eh.rest), LAMBDA after_message :
         Ok(after_message.rest,
            StatisticRowInfo(Some(<<eh.val.application_id, eh.val.context_id>>),
                             hd.val.ecu_id,
                             IF eh.val.message_type.k = "Log"
                             THEN Some(eh.val.message_type.mtin) ELSE None,
                             eh.val.verbose))))))))

\* ReduxReader over a file: buf is what is buffered, src what the file still
\* delivers, fails whether a read after src returns an error (else it returns 0)
ReduxReader(src, fails) == [buf |-> <<>>, src |-> src, fails |-> fails]

\* BufRead::fill_buf under MinBuffered: reads until BIN_MIN_BUFFER_SPACE bytes
\* are buffered, the file ends, or a read fails
fill_buf(reader) ==
    IF Len(reader.buf) >= BIN_MIN_BUFFER_SPACE
    THEN [ok |-> TRUE, reader |-> reader, content |-> reader.buf]
    ELSE Bind([reader EXCEPT !.buf = @ \o reader.src, !.src = <<>>], LAMBDA filled :
         IF Len(filled.buf) < BIN_MIN_BUFFER_SPACE /\ reader.fails
         THEN [ok |-> FALSE, reader |-> filled, content |-> <<>>]
         ELSE [ok |-> TRUE, reader |-> filled, content |-> filled.buf])

\* BufRead::consume: at most what is buffered
consume(reader, amt) == [reader EXCEPT !.buf = Drop(@, Min(amt, Len(@)))]

\* the reader after the call, and the Result<Option<(u64, StatisticRowInfo)>, _>
read_one_dlt_message_info(reader, with_storage_header) ==
    Bind(fill_buf(reader), LAMBDA f :
    IF ~f.ok
    THEN [reader |-> f.reader, r |-> DltErr("ParsingHickup", None)]
    ELSE IF f.content = <<>>
    THEN [reader |-> f.reader, r |-> [ok |-> TRUE, val |-> None]]
    ELSE Bind(dlt_statistic_row_info(f.content, with_storage_header), LAMBDA r :
         IF ~r.ok THEN [reader |-> f.reader, r |-> r]
         ELSE [reader |-> f.reader,
               r |-> [ok |-> TRUE,
                      val |-> Some(<<Len(f.content) - Len(r.rest), r.val>>)]]))

\* what collect_dlt_stats has gathered: the rows counted by add_for_level, as
\* <<level, app id, context id, ecu id>>, and contained_non_verbose
NoRows == [rows |-> <<>>, contained_non_verbose |-> FALSE]

NONE == "NONE"

RowOf(info) ==
    <<info.level,
      IF IsSome(info.app_id_context_id) THEN Unwrap(info.app_id_context_id)[1] ELSE NONE,
      IF IsSome(info.app_id_context_id) THEN Unwrap(info.app_id_context_id)[2] ELSE NONE,
      IF IsSome(info.ecu_id) THEN Unwrap(info.ecu_id) ELSE NONE>>

\* one pass of the loop of collect_dlt_stats: the reader and the rows after it,
\* and what collect_dlt_stats returns when the pass ends the loop
collect_dlt_stats_pass(reader, gathered) ==
    Bind(read_one_dlt_message_info(reader, TRUE), LAMBDA p :
    IF p.r.ok
    THEN IF IsSome(p.r.val)
         THEN [reader |-> consume(p.reader, Unwrap(p.r.val)[1]),
               gathered |-> [rows |-> Append(gathered.rows, RowOf(Unwrap(p.r.val)[2])),
                             contained_non_verbose |->
                                 gathered.contained_non_verbose
                                     \/ ~Unwrap(p.r.val)[2].verbose],
               returned |-> None]
         ELSE [reader |-> p.reader, gathered |-> gathered,
               returned |-> Some([ok |-> TRUE, val |-> gathered])]
    ELSE IF p.r.err = "ParsingHickup"
    THEN [reader |-> consume(p.reader, 4), gathered |-> gathered, returned |-> None]
    ELSE [reader |-> p.reader, gathered |-> gathered, returned |-> Some(p.r)])

MaxScanUnits == 3

\* the stored messages of the files
ScanMessage(with_ext) ==
    Message_as_bytes(MkMessage(Some(SampleStorageHeader), "Big",
                               [ecu_id |-> None, session_id |-> None, timestamp |-> None],
                               with_ext, LogWarn,
                               IF with_ext THEN Verbose(<<>>)
                               ELSE NonVerbose(<<0, 0, 0, 9>>, <<>>)))

\* what a file is made of: messages without and with extended header, a stored
\* header with an overall length below and one above what is there, the
\* beginning of a message, bytes that are no message
ScanUnits ==
    {ScanMessage(FALSE), ScanMessage(TRUE),
     StorageHeader_as_bytes(SampleStorageHeader) \o <<32, 0, 0, 2>>,
     StorageHeader_as_bytes(SampleStorageHeader) \o <<32, 0, 1, 44>>,
     Take(ScanMessage(FALSE), 10),
     <<1, 2, 3>>, <<9, 9, 9, 9, 9>>}

ScanCase ==
    \E n \in 0..MaxScanUnits : \E units \in [1..n -> ScanUnits] :
    \E fails \in BOOLEAN, readable \in {0, 1} :
        /\ ~fails => readable = 1
        /\ tc = [op |-> "scan", units |-> units, bytes |-> Flatten(units),
                 fails |-> fails,
                 readable |-> IF readable = 1 THEN Len(Flatten(units)) ELSE 0]

InitScan ==
    /\ ScanCase
    /\ rem = ReduxReader(Take(tc.bytes, tc.readable), tc.fails)
    /\ stats = NoRows
    /\ res = <<>>
    /\ stream = Unused /\ sync = Unused /\ async = Unused

\* one pass of the loop of collect_dlt_stats
ScanPass ==
    /\ tc.op = "scan" /\ res = <<>>
    /\ LET p == collect_dlt_stats_pass(rem, stats)
       IN  /\ rem' = p.reader
           /\ stats' = p.gathered
           /\ res' = IF IsSome(p.returned) THEN <<Unwrap(p.returned)>> ELSE res
    /\ UNCHANGED <<tc, stream, sync, async>>

NextScan == ScanPass

SpecScan == InitScan /\ [][NextScan]_vars

\* the bytes of the file not yet consumed
Unconsumed(reader) == Len(reader.buf) + Len(reader.src)

\* the next pass ends the loop or consumes at least one byte
PassConsumes ==
    Bind(collect_dlt_stats_pass(rem, stats), LAMBDA p :
        IsSome(p.returned) \/ Unconsumed(p.reader) < Unconsumed(rem))

\* C30: collect_dlt_stats finishes on every finite file: every pass of its
\* scan loop consumes at least one byte or ends the loop
C30_ScanTerminates == (tc.op = "scan" /\ res = <<>>) => PassConsumes

\* on a file that is read without an error every pass consumes or ends the scan
ScanTerminatesWithoutReadErrors == (tc.op = "scan" /\ res = <<>> /\ ~tc.fails) => PassConsumes

\* a pass that neither consumes nor ends the loop is a read error on an empty
\* buffer
ScanStopsOnReadError ==
    (tc.op = "scan" /\ res = <<>> /\ ~PassConsumes)
        => /\ ~fill_buf(rem).ok
           /\ fill_buf(rem).reader.buf = <<>>

====
